---- MODULE Spec2Model ----
(***************************************************************************)
(* Verification model of the nosleep video pipeline: src/make_video.py,    *)
(* src/scrape_nosleep.py and the three uploaders src/upload_*.py.          *)
(*                                                                         *)
(* Spec          create_video: narration step, layer rendering, scroll     *)
(*               schedule, and the frame source make_frame.                *)
(* SpecWrap      _wrap_markup: the greedy mixed-style line wrapper.        *)
(* SpecParse     _parse_inline: inline markup to styled tokens.            *)
(* SpecFetch     fetch_json: rate limiter and the 429 retry loop.          *)
(* SpecScrape    scrape_all and the merge into the stories file.           *)
(* SpecSubreddit scrape_subreddit: the page loop of one listing.           *)
(* SpecUploader  main of the uploaders: pending list, limit, upload log.   *)
(* SpecToken     get_access_token of upload_instagram.py.                  *)
(* SpecTikTok    upload_video of upload_tiktok.py: chunks and status polls.*)
(*                                                                         *)
(* Python floats are modelled by exact rationals <<numerator, denominator>>*)
(* (denominator > 0, lowest terms), so "equal within floating tolerance"   *)
(* becomes exact equality.  Images are modelled by one pixel column and    *)
(* one colour channel: every numpy operation of make_frame is elementwise, *)
(* so a column of the frame depends on the same column of the buffers only.*)
(***************************************************************************)
EXTENDS Integers, Sequences, FiniteSets, TLC

VARIABLES
  \* ---- create_video ----
  args,            \* CLI arguments: narration, scroll_speed, max_duration
  tts_dur,         \* duration of the synthesised narration file, or "None"
  wrapped,         \* line counts the wrappers return inside render_story_image
  assets,          \* pixel content of the background image and of drawn glyphs
  pc,              \* position in create_video, or the exception that ended it
  narration_clip,  \* narration_clip.duration after trimming, or "None"
  duration,        \* local `duration`
  scroll_speed,    \* local `scroll_speed` (argument, later the resolved speed)
  max_scroll,      \* local `max_scroll`
  total_height,    \* rows of the text layer
  bg_float,        \* background column, HEIGHT rows
  text_rgb_float,  \* text layer colour column, total_height rows
  text_alpha,      \* text layer alpha column, as numerators over 255
  text_inv_alpha,  \* 1 - alpha, as numerators over 255
  t,               \* argument of the last make_frame call
  y,               \* local `y` of the last make_frame call
  frame,           \* value the last make_frame call returned (or its exception)
  music_path,      \* argument music_path, later what _resolve_music returned
  background_path, \* argument background_path
  warned,          \* a "no audio files found" warning was printed
  music_clip,      \* duration of the looped music clip `bg`, or None
  audio,           \* duration of the track `audio`, or None
  drawn,           \* y of every text line drawn by render_story_image, per block
  cursor_y,        \* local `y` of render_story_image when it returns
  center_y,        \* subscribe_center_y as render_story_image returned it
  \* ---- _wrap_markup ----
  tagged_words,    \* result of _parse_inline: sequence of Word tuples
  fonts,           \* font metrics: textlength per font and word, space width
  max_width,       \* argument max_width
  lines,           \* local `lines`
  current_line,    \* local `current_line`
  current_w,       \* local `current_w`
  widx,            \* index of the next word of the for loop
  wpc,             \* position in _wrap_markup
  \* ---- _parse_inline ----
  paragraph,       \* argument `text` as passed in
  text,            \* local `text` after the re.sub calls
  segments,        \* local `segments`
  seg_idx,         \* index of the next segment of the for loop
  result,          \* local `result`
  ppc,             \* position in _parse_inline
  \* ---- fetch_json (scrape_nosleep.py) ----
  now,             \* time.time(), in seconds
  _last_request_at,\* global _last_request_at
  attempt,         \* loop variable `attempt`
  fpc,             \* position in fetch_json
  calls,           \* fetch_json calls made so far
  requests,        \* HTTP requests sent so far
  last_gap,        \* seconds between the last two requests sent
  outcome,         \* how the last fetch_json call ended
  retry_after,     \* local `retry_after` of the last 429
  wait,            \* local `wait` of the last 429
  \* ---- main (scrape_nosleep.py) ----
  out_file,        \* the stories in the JSON file args.out
  file_before,     \* the stories that were in the file when the run began
  comprehensive,   \* args.comprehensive
  existing_stories,\* local `existing_stories`
  existing_ids,    \* local `existing_ids`
  pass_idx,        \* index of the next pass of the loop over `passes`
  fresh,           \* local `fresh` of the last pass
  total_new,       \* local `total_new`
  spc,             \* position in main
  \* ---- scrape_subreddit (scrape_nosleep.py) ----
  target,          \* parameter `target`
  stories,         \* local `stories`: the posts collected so far
  after,           \* local `after`, the pagination cursor
  page,            \* local `page`
  listing_fetches, \* listing pages requested so far
  stop,            \* why the loop ended
  qpc,             \* position in scrape_subreddit
  \* ---- main of the uploaders (upload_youtube.py, upload_tiktok.py,
  \*      upload_instagram.py) ----
  platform,        \* which uploader runs
  rendered,        \* ids of the stories with an .mp4 in VIDEO_OUTPUT_DIR
  uploaded_file,   \* the upload log on disk (UPLOADED_FILE)
  uploaded,        \* local `uploaded`
  to_upload,       \* local `to_upload`
  upload_i,        \* index into to_upload of the loop of main
  limit,           \* args.limit
  dry_run,         \* args.dry_run
  sync,            \* args.sync (YouTube)
  runs,            \* runs of main started so far
  upload_calls,    \* the calls of upload_video made so far, in order
  upc,             \* position in main
  \* ---- get_access_token (upload_instagram.py) ----
  token_exists,    \* TOKEN_FILE exists
  token_file,      \* the dict stored in TOKEN_FILE
  today,           \* time.time(), in days
  token_calls,     \* calls of get_access_token so far
  had_token,       \* the last call found a saved token
  auth_result,     \* what the last call returned or raised
  first_ig,        \* the ig_user_id found at the first authorisation
  \* ---- upload_video (upload_tiktok.py) ----
  chunk_count,     \* local `chunk_count`
  chunks_sent,     \* chunks put so far
  polls,           \* status polls made so far
  status,          \* local `status`
  entry_logged,    \* main wrote the story's entry to the upload log
  tpc              \* position in upload_video

vvars == <<args, tts_dur, wrapped, assets, pc, narration_clip, duration,
           scroll_speed, max_scroll, total_height, bg_float, text_rgb_float,
           text_alpha, text_inv_alpha, t, y, frame, music_path,
           background_path, warned, music_clip, audio, drawn, cursor_y, center_y>>
wvars == <<tagged_words, fonts, max_width, lines, current_line, current_w,
           widx, wpc>>
pvars == <<paragraph, text, segments, seg_idx, result, ppc>>
\* the variables of the components other than create_video and _wrap_markup
fvars == <<now, _last_request_at, attempt, fpc, calls, requests, last_gap,
           outcome, retry_after, wait>>
svars == <<out_file, file_before, comprehensive, existing_stories,
           existing_ids, pass_idx, fresh, total_new, spc>>
qvars == <<target, stories, after, page, listing_fetches, stop, qpc>>
\* the components added after the scraper's main
uvars == <<platform, rendered, uploaded_file, uploaded, to_upload, upload_i,
           limit, dry_run, sync, runs, upload_calls, upc>>
kvars == <<token_exists, token_file, today, token_calls, had_token,
           auth_result, first_ig>>
tvars == <<chunk_count, chunks_sent, polls, status, entry_logged, tpc>>
nvars == <<qvars, uvars, kvars, tvars>>
xvars == <<pvars, fvars, svars, nvars>>
\* everything but scrape_subreddit
not_q == <<vvars, wvars, pvars, fvars, svars, uvars, kvars, tvars>>
\* everything but the uploaders' main
not_u == <<vvars, wvars, pvars, fvars, svars, qvars, kvars, tvars>>
\* everything but get_access_token
not_k == <<vvars, wvars, pvars, fvars, svars, qvars, uvars, tvars>>
\* everything but TikTok's upload_video
not_t == <<vvars, wvars, pvars, fvars, svars, qvars, uvars, kvars>>
vars == <<vvars, wvars, xvars>>

(***************************************************************************)
(* Program constants                                                       *)
(***************************************************************************)
HEIGHT == 1920
FPS == 30
TITLE_FONT_SIZE == 72
BODY_FONT_SIZE == 46
PARAGRAPH_GAP == 70
DEFAULT_SCROLL_SPEED == 50
MAX_VIDEO_DURATION == 180
AUTHOR_FONT_SIZE == BODY_FONT_SIZE - 6
TITLE_COLOR == <<210, 50, 50>>
TEXT_COLOR == <<220, 220, 220>>
AUTHOR_COLOR == <<160, 160, 160>>
\* LINE_SPACING = 1.5 as the rational 3/2
LINE_SPACING == <<3, 2>>
\* gap between title block and author line, body start offset below the
\* first frame, gap between body and subscribe block
AUTHOR_GAP == 16
BODY_START_OFFSET == 20
SUBSCRIBE_GAP == 120
\* full scale of the uint8 alpha channel (text_arr[:, :, 3:4] / 255.0)
ALPHA_MAX == 255

(***************************************************************************)
(* Bounds of the model                                                     *)
(***************************************************************************)
\* make_frame is requested at t = k * FrameStride / FPS, k in 0..MaxTick
FrameStride == 10
MaxTick == 3
\* at most MaxWords words per wrapped paragraph, widths up to MaxWordW
MaxWords == 3
MaxWordW == 3

(***************************************************************************)
(* Exact rational arithmetic standing for Python float arithmetic          *)
(***************************************************************************)
Abs(n) == IF n < 0 THEN -n ELSE n

RECURSIVE GCD(_, _)
GCD(a, b) == IF b = 0 THEN a ELSE GCD(b, a % b)

\* n/d in lowest terms with a positive denominator (d # 0)
Rat(n, d) ==
  LET g == GCD(Abs(n), Abs(d))
      s == IF d < 0 THEN -1 ELSE 1
  IN  <<(s * n) \div g, (s * d) \div g>>

IntR(n) == <<n, 1>>
RMul(a, b) == Rat(a[1] * b[1], a[2] * b[2])
RLt(a, b) == a[1] * b[2] < b[1] * a[2]
RLe(a, b) == a[1] * b[2] <= b[1] * a[2]
\* a / b for b # 0
RDiv(a, b) == Rat(a[1] * b[2], a[2] * b[1])
IsZero(a) == a[1] = 0

\* floor of a rational (TLA+ \div rounds towards minus infinity)
Floor(a) == a[1] \div a[2]
\* math.ceil
MathCeil(a) == -((-a[1]) \div a[2])
\* int(x) on a float: truncation towards zero
PyInt(a) == IF a[1] >= 0 THEN a[1] \div a[2] ELSE -((-a[1]) \div a[2])
\* min(a, b) of Python: the first argument unless the second is smaller
PyMin(a, b) == IF RLt(b, a) THEN b ELSE a

(***************************************************************************)
(* Python sequence slicing and numpy broadcasting                          *)
(* Arrays are functions on 0..n-1.                                         *)
(***************************************************************************)
ArrLen(a) == Cardinality(DOMAIN a)

\* index normalisation of a[lo:hi]: negative indices count from the end,
\* then both ends are clipped to 0..n
SliceIndex(i, n) ==
  LET j == IF i < 0 THEN i + n ELSE i
  IN  IF j < 0 THEN 0 ELSE IF j > n THEN n ELSE j

\* a[lo:hi]
PySlice(a, lo, hi) ==
  LET n == ArrLen(a)
      s == SliceIndex(lo, n)
      e == SliceIndex(hi, n)
      m == IF e > s THEN e - s ELSE 0
  IN  [r \in 0..(m - 1) |-> a[s + r]]

(***************************************************************************)
(* render_story_image: vertical layout                                     *)
(***************************************************************************)
\* int(size * LINE_SPACING)
LineHeight(size) == PyInt(RMul(IntR(size), LINE_SPACING))
lh_title == LineHeight(TITLE_FONT_SIZE)
lh_author == LineHeight(AUTHOR_FONT_SIZE)
lh_body == LineHeight(BODY_FONT_SIZE)

RECURSIVE SumLines(_, _)
\* sum(len(lines) * lh_body for lines in para_lines_list), from paragraph i on
SumLines(pl, i) ==
  IF i > Len(pl) THEN 0 ELSE pl[i] * lh_body + SumLines(pl, i + 1)

title_block_h(w) == w.title_lines * lh_title
author_block_h == lh_author
subscribe_block_h(w) == w.subscribe_lines * lh_title
\* Faulty variant of body_height: a gap is counted after every paragraph,
\* the last one included.
body_height_gap_each(w) ==
  SumLines(w.para_lines_list, 1) + PARAGRAPH_GAP * Len(w.para_lines_list)

body_height(w) ==
  SumLines(w.para_lines_list, 1) + PARAGRAPH_GAP * (Len(w.para_lines_list) - 1)
header_block_h(w) == title_block_h(w) + AUTHOR_GAP + author_block_h
title_y(w) == (HEIGHT \div 2) - (header_block_h(w) \div 2)
author_y(w) == title_y(w) + title_block_h(w) + AUTHOR_GAP
\* Faulty variant of body_start_y: the offset is taken off the frame height.
body_start_y_in_frame == HEIGHT - BODY_START_OFFSET

body_start_y == HEIGHT + BODY_START_OFFSET
TotalHeight(w) ==
  body_start_y + body_height(w) + SUBSCRIBE_GAP + subscribe_block_h(w) + HEIGHT

RECURSIVE DrawLines(_, _, _, _)
\* the inner loop over the lines of one paragraph: draws n lines from cursor
\* cy, returns the cursor and the tops of the drawn lines
DrawLines(n, cy, step, tops) ==
  IF n = 0 THEN [y |-> cy, tops |-> tops]
  ELSE DrawLines(n - 1, cy + step, step, tops \cup {cy})

RECURSIVE DrawBody(_, _, _, _)
\* the loop over para_lines_list from paragraph i on
DrawBody(pl, i, cy, tops) ==
  IF i > Len(pl) THEN [y |-> cy + SUBSCRIBE_GAP, tops |-> tops]
  ELSE LET d == DrawLines(pl[i], cy, lh_body, tops)
           gap == IF i - 1 < Len(pl) - 1 THEN PARAGRAPH_GAP ELSE 0
       IN  DrawBody(pl, i + 1, d.y + gap, d.tops)

\* y after the body loop and the "y += 120": where the subscribe text starts
subscribe_start_y(w) == DrawBody(w.para_lines_list, 1, body_start_y, {}).y
\* Faulty variant of subscribe_center_y: the centre is measured from the
\* start of the body, not from the top of the canvas.
subscribe_center_y_in_body(w) ==
  subscribe_start_y(w) - body_start_y + (subscribe_block_h(w) \div 2)

\* line 436
subscribe_center_y(w) == subscribe_start_y(w) + (subscribe_block_h(w) \div 2)

\* The glyph bands draw.text leaves in the sampled column: <<top, height,
\* colour>> of every drawn line (red channel of the fill colour).
Bands(w) ==
  DrawLines(w.title_lines, title_y(w), lh_title, {}).tops
      \X {TITLE_FONT_SIZE} \X {TITLE_COLOR[1]}
  \cup {<<author_y(w), AUTHOR_FONT_SIZE, AUTHOR_COLOR[1]>>}
  \cup DrawBody(w.para_lines_list, 1, body_start_y, {}).tops
      \X {BODY_FONT_SIZE} \X {TEXT_COLOR[1]}
  \cup DrawLines(w.subscribe_lines, subscribe_start_y(w), lh_title, {}).tops
      \X {TITLE_FONT_SIZE} \X {TITLE_COLOR[1]}

\* np.array(img): RGBA rows of the sampled column, transparent black where
\* nothing was drawn.  Inside a glyph band rows alternate between fully
\* opaque and the anti-aliased opacity a.ink.
TextArr(w, a) ==
  LET bands == Bands(w)
  IN  [r \in 0..(TotalHeight(w) - 1) |->
         IF \E b \in bands : b[1] <= r /\ r < b[1] + b[2]
         THEN LET b == CHOOSE b \in bands : b[1] <= r /\ r < b[1] + b[2]
              IN  <<b[3], IF (r - b[1]) % 2 = 0 THEN ALPHA_MAX ELSE a.ink>>
         ELSE <<0, 0>>]

\* load_background_image: a HEIGHT-row opaque uint8 column
BgArr(a) == [r \in 0..(HEIGHT - 1) |-> (a.bg_seed * (r + 1)) % (ALPHA_MAX + 1)]

(***************************************************************************)
(* create_video: inputs                                                    *)
(***************************************************************************)
\* Python's None, and the empty array of a local not yet assigned
None == <<>>

\* --speed (type=int), --max-duration (type=float): argparse accepts any
\* number, negative and zero included
Speeds == {0, DEFAULT_SCROLL_SPEED, 2000}
MaxDurations == {IntR(-1), IntR(0), <<3, 2>>, IntR(MAX_VIDEO_DURATION)}
\* narration_clip.duration of the synthesised file, in seconds
NarrDurs == {IntR(0), <<1, 2>>, <<5, 2>>}
\* A story as render_story_image sees it: the line counts its wrappers
\* return (a paragraph whose text is only a superscript annotation wraps to
\* zero lines), and the pixel content of the background image and of the
\* glyphs in the sampled column.
Stories ==
  { [wrapped |-> [title_lines |-> 1, para_lines_list |-> <<0>>,
                  subscribe_lines |-> 1],
     assets |-> [ink |-> 128, bg_seed |-> 37]],
    [wrapped |-> [title_lines |-> 2, para_lines_list |-> <<2, 1>>,
                  subscribe_lines |-> 2],
     assets |-> [ink |-> 0, bg_seed |-> 255]] }
Ticks == {Rat(k * FrameStride, FPS) : k \in 0..MaxTick}

ArgsSet ==
  [narration : {TRUE}, scroll_speed : {DEFAULT_SCROLL_SPEED},
   max_duration : MaxDurations]
  \cup [narration : {FALSE}, scroll_speed : Speeds, max_duration : MaxDurations]

(***************************************************************************)
(* create_video: the pieces of the schedule and of the frame source        *)
(***************************************************************************)
\* Clip.subclipped(0, end): the new clip's duration; a negative end counts
\* back from the end of the clip
Subclipped(clip_dur, end) ==
  IF end[1] < 0 THEN Rat(clip_dur[1] * end[2] + end[1] * clip_dur[2],
                         clip_dur[2] * end[2])
  ELSE end

\* Faulty variant of CapNarration: the cap is forgotten.
CapNarrationSkipped(d, dmax) == d

\* lines 560-565: duration after the max_duration cap
CapNarration(d, dmax) == IF RLt(dmax, d) THEN dmax ELSE d

\* Faulty variant of MaxScroll: the stop point puts the top of the subscribe
\* block, not its centre, at mid-frame.
MaxScrollTop(w) ==
  LET v == subscribe_start_y(w) - (HEIGHT \div 2) IN IF v > 0 THEN v ELSE 0

\* line 588
MaxScroll(w) ==
  LET v == subscribe_center_y(w) - (HEIGHT \div 2) IN IF v > 0 THEN v ELSE 0

\* line 597
NarrationSpeed(ms, d) == RDiv(IntR(ms), d)

\* line 601
MinSpeed(ms, dmax) == RDiv(IntR(ms), dmax)

\* Faulty variant of EffectiveSpeed: the minimum speed is rounded down.
EffectiveSpeedFloor(s, min_speed) ==
  IF RLt(s, min_speed) THEN IntR(Floor(min_speed)) ELSE s

\* lines 602-603
EffectiveSpeed(s, min_speed) ==
  IF RLt(s, min_speed) THEN IntR(MathCeil(min_speed)) ELSE s

\* line 605
SpeedDuration(ms, s, dmax) == PyMin(RDiv(IntR(ms), s), dmax)

\* round(x) of Python: to the nearest integer, ties to the even one
PyRound(a) ==
  LET f == Floor(a)
      twice == 2 * (a[1] - f * a[2])
  IN  IF twice < a[2] THEN f
      ELSE IF twice > a[2] THEN f + 1
      ELSE IF f % 2 = 0 THEN f ELSE f + 1

\* Faulty variant of ScrollOffset: the product is rounded to nearest.
ScrollOffsetRounded(tt, s, ms) ==
  LET v == PyRound(RMul(tt, s)) IN IF ms < v THEN ms ELSE v

\* Faulty variant of ScrollOffset: the cap at max_scroll is forgotten.
ScrollOffsetUnclamped(tt, s, ms) == PyInt(RMul(tt, s))

\* line 616: y = min(int(t * scroll_speed), max_scroll)
ScrollOffset(tt, s, ms) ==
  LET v == PyInt(RMul(tt, s)) IN IF ms < v THEN ms ELSE v

\* Faulty variant of Blend: the two weights are exchanged.
BlendSwapped(bg, fg, a, inv) == (bg * a + fg * inv) \div ALPHA_MAX

\* line 617, one pixel: bg * inv_alpha + rgb * alpha with alpha = a / 255 and
\* inv_alpha = inv / 255, then astype(np.uint8) (truncation)
Blend(bg, fg, a, inv) == (bg * inv + fg * a) \div ALPHA_MAX

\* line 617, the column: the three slices [y:y+HEIGHT] broadcast against the
\* HEIGHT rows of bg_float (numpy stretches a one-row operand, and rejects
\* any other row count)
ComposeFrame(bg, rgb, alpha, inv, yy) ==
  LET r_s == PySlice(rgb, yy, yy + HEIGHT)
      a_s == PySlice(alpha, yy, yy + HEIGHT)
      i_s == PySlice(inv, yy, yy + HEIGHT)
      m == ArrLen(a_s)
  IN  IF m = HEIGHT
      THEN [error |-> "None",
            px |-> [r \in 0..(HEIGHT - 1) |-> Blend(bg[r], r_s[r], a_s[r], i_s[r])]]
      ELSE IF m = 1
      THEN [error |-> "None",
            px |-> [r \in 0..(HEIGHT - 1) |-> Blend(bg[r], r_s[0], a_s[0], i_s[0])]]
      ELSE [error |-> "ValueError", px |-> None]

(***************************************************************************)
(* create_video: music and background assets                               *)
(***************************************************************************)
\* music_path: not given, a folder without audio files, a path that is
\* neither a folder nor a file, a folder whose tracks last dur seconds; a
\* "file" is what _resolve_music picks from such a folder
NoMusic == [kind |-> "unset", dur |-> None]
MusicPaths ==
  { NoMusic,
    [kind |-> "empty_dir", dur |-> None],
    [kind |-> "missing", dur |-> None],
    [kind |-> "dir", dur |-> IntR(2)] }

\* background_path: a folder with images, a folder without, a path that is
\* neither a folder nor a file
BackgroundPaths == {"dir", "empty_dir", "missing"}

\* _resolve_music: the path returned and whether the warning is printed
_resolve_music(mp) ==
  IF mp.kind = "empty_dir" THEN [path |-> NoMusic, warned |-> TRUE]
  ELSE IF mp.kind = "dir"
  THEN [path |-> [kind |-> "file", dur |-> mp.dur], warned |-> FALSE]
  ELSE [path |-> mp, warned |-> FALSE]

\* _resolve_background: the path returned, or the exit of sys.exit
_resolve_background(bp) ==
  IF bp = "empty_dir" THEN "SystemExit"
  ELSE IF bp = "dir" THEN "file"
  ELSE bp

\* `if music_path:`
HasMusic(mp) == mp.kind # "unset"

\* AudioFileClip(music_path) opens the file: it raises when there is none
MusicReadable(mp) == mp.kind = "file"

\* line 470: repeats
Repeats(clip_dur, d) == PyInt(RDiv(d, clip_dur)) + 1

\* _loop_audio: the duration of the clip returned, for clip_dur > 0
_loop_audio(clip_dur, d) ==
  IF RLe(d, clip_dur) THEN Subclipped(clip_dur, d)
  ELSE Subclipped(RMul(IntR(Repeats(clip_dur, d)), clip_dur), d)

\* CompositeAudioClip([a, b]).duration: the later of the two ends
CompositeDuration(a, b) == IF RLt(a, b) THEN b ELSE a

\* the y of every draw.text / _draw_markup_line call, per block
DrawCalls(w) ==
  [title |-> DrawLines(w.title_lines, title_y(w), lh_title, {}).tops,
   author |-> {author_y(w)},
   body |-> DrawBody(w.para_lines_list, 1, body_start_y, {}).tops,
   subscribe |->
     DrawLines(w.subscribe_lines, subscribe_start_y(w), lh_title, {}).tops]

\* the local y after the last loop of render_story_image
FinalCursor(w) ==
  DrawLines(w.subscribe_lines, subscribe_start_y(w), lh_title, {}).y

(***************************************************************************)
(* create_video: the state machine                                         *)
(***************************************************************************)
WrapIdle ==
  /\ tagged_words = <<>> /\ fonts = None /\ max_width = 0 /\ lines = <<>>
  /\ current_line = <<>> /\ current_w = 0 /\ widx = 0 /\ wpc = "idle"

\* _parse_inline is not running
ParseIdle ==
  /\ paragraph = <<>> /\ text = <<>> /\ segments = <<>> /\ seg_idx = 0
  /\ result = <<>> /\ ppc = "idle"

\* the components other than create_video and _wrap_markup are not running
\* fetch_json is not running
FetchIdle ==
  /\ now = 0 /\ _last_request_at = 0 /\ attempt = 0 /\ fpc = "off"
  /\ calls = 0 /\ requests = 0 /\ last_gap = 0 /\ outcome = "none"
  /\ retry_after = [kind |-> "unset", secs |-> 0] /\ wait = 0

\* the scraper's main is not running
ScrapeIdle ==
  /\ out_file = <<>> /\ file_before = <<>> /\ comprehensive = FALSE
  /\ existing_stories = <<>> /\ existing_ids = {} /\ pass_idx = 0
  /\ fresh = <<>> /\ total_new = 0 /\ spc = "off"

\* scrape_subreddit is not running
SubredditIdle ==
  /\ target = 0 /\ stories = <<>> /\ after = "" /\ page = 0
  /\ listing_fetches = 0 /\ stop = "none" /\ qpc = "off"

\* no uploader is running
UploaderIdle ==
  /\ platform = "none" /\ rendered = {} /\ uploaded_file = <<>>
  /\ uploaded = <<>> /\ to_upload = <<>> /\ upload_i = 0 /\ limit = 0
  /\ dry_run = FALSE /\ sync = FALSE /\ runs = 0 /\ upload_calls = <<>>
  /\ upc = "off"

\* get_access_token has not been called
NoResult == [kind |-> "none", access_token |-> 0, ig_user_id |-> "none"]
TokenIdle ==
  /\ token_exists = FALSE /\ token_file = <<>> /\ today = 0
  /\ token_calls = 0 /\ had_token = FALSE /\ auth_result = NoResult
  /\ first_ig = "none"

\* TikTok's upload_video is not running
TikTokIdle ==
  /\ chunk_count = 0 /\ chunks_sent = 0 /\ polls = 0 /\ status = "unset"
  /\ entry_logged = FALSE /\ tpc = "off"

NIdle == SubredditIdle /\ UploaderIdle /\ TokenIdle /\ TikTokIdle

XIdle == ParseIdle /\ FetchIdle /\ ScrapeIdle /\ NIdle

VideoInit ==
  /\ args \in ArgsSet
  /\ tts_dur \in IF args.narration THEN NarrDurs ELSE {None}
  /\ \E st \in Stories : wrapped = st.wrapped /\ assets = st.assets
  /\ music_path \in MusicPaths
  /\ background_path \in BackgroundPaths
  /\ pc = "start"
  /\ narration_clip = None
  /\ duration = None
  /\ scroll_speed = IntR(args.scroll_speed)
  /\ max_scroll = 0
  /\ total_height = 0
  /\ bg_float = None
  /\ text_rgb_float = None
  /\ text_alpha = None
  /\ text_inv_alpha = None
  /\ t = None
  /\ y = 0
  /\ frame = None
  /\ warned = FALSE
  /\ music_clip = None
  /\ audio = None
  /\ drawn = None
  /\ cursor_y = 0
  /\ center_y = 0

Init == VideoInit /\ WrapIdle /\ XIdle

\* lines 533-535: a music folder is resolved to one of its tracks, or to None
ResolveMusic ==
  /\ pc = "start"
  /\ IF HasMusic(music_path)
     THEN /\ music_path' = _resolve_music(music_path).path
          /\ warned' = _resolve_music(music_path).warned
     ELSE UNCHANGED <<music_path, warned>>
  /\ pc' = "resolved"
  /\ UNCHANGED <<args, tts_dur, wrapped, assets, narration_clip, duration,
                 scroll_speed, max_scroll, total_height, bg_float,
                 text_rgb_float, text_alpha, text_inv_alpha, t, y, frame,
                 background_path, music_clip, audio, drawn, cursor_y, center_y,
                 wvars, xvars>>

\* lines 540-577: synthesise the narration, cap it at max_duration, and mix
\* the looped music under it
GenerateNarration ==
  /\ pc = "resolved"
  /\ IF args.narration
     THEN IF RLt(args.max_duration, tts_dur) /\ RLe(tts_dur, IntR(0))
          THEN \* subclipped raises: start_time 0 is not inside the clip
               /\ pc' = "ValueError"
               /\ UNCHANGED <<narration_clip, duration, music_clip, audio>>
          ELSE /\ narration_clip' =
                    IF RLt(args.max_duration, tts_dur)
                    THEN Subclipped(tts_dur, args.max_duration) ELSE tts_dur
               /\ duration' = CapNarration(tts_dur, args.max_duration)
               /\ IF HasMusic(music_path)
                  THEN IF MusicReadable(music_path)
                       THEN /\ music_clip' = _loop_audio(music_path.dur, duration')
                            /\ audio' = CompositeDuration(narration_clip', music_clip')
                            /\ pc' = "narrated"
                       ELSE /\ pc' = "OSError"
                            /\ UNCHANGED <<music_clip, audio>>
                  ELSE /\ audio' = narration_clip'
                       /\ pc' = "narrated"
                       /\ UNCHANGED music_clip
     ELSE /\ duration' = None
          /\ narration_clip' = None
          /\ pc' = "narrated"
          /\ UNCHANGED <<music_clip, audio>>
  /\ UNCHANGED <<args, tts_dur, wrapped, assets, scroll_speed, max_scroll,
                 total_height, bg_float, text_rgb_float, text_alpha,
                 text_inv_alpha, t, y, frame, music_path, background_path,
                 warned, drawn, cursor_y, center_y, wvars, xvars>>

\* lines 580-593: background, text layer, max_scroll, float buffers
RenderLayers ==
  /\ pc = "narrated"
  /\ IF _resolve_background(background_path) = "SystemExit"
     THEN /\ pc' = "SystemExit"
          /\ UNCHANGED <<bg_float, total_height, max_scroll, text_rgb_float,
                         text_alpha, text_inv_alpha, drawn, cursor_y, center_y>>
     ELSE IF _resolve_background(background_path) = "missing"
     THEN \* Image.open finds no file
          /\ pc' = "FileNotFoundError"
          /\ UNCHANGED <<bg_float, total_height, max_scroll, text_rgb_float,
                         text_alpha, text_inv_alpha, drawn, cursor_y, center_y>>
     ELSE LET text_arr == TextArr(wrapped, assets)
          IN  /\ bg_float' = BgArr(assets)
              /\ drawn' = DrawCalls(wrapped)
              /\ cursor_y' = FinalCursor(wrapped)
              /\ center_y' = subscribe_center_y(wrapped)
              /\ total_height' = ArrLen(text_arr)
              /\ max_scroll' = MaxScroll(wrapped)
              /\ text_rgb_float' = [r \in DOMAIN text_arr |-> text_arr[r][1]]
              /\ text_alpha' = [r \in DOMAIN text_arr |-> text_arr[r][2]]
              /\ text_inv_alpha' =
                   [r \in DOMAIN text_arr |-> ALPHA_MAX - text_arr[r][2]]
              /\ pc' = "rendered"
  /\ UNCHANGED <<args, tts_dur, wrapped, assets, narration_clip, duration,
                 scroll_speed, t, y, frame, music_path, background_path,
                 warned, music_clip, audio, wvars, xvars>>

\* lines 608-611: without narration the looped music is the whole track
MusicOnly(d) ==
  IF HasMusic(music_path)
  THEN IF MusicReadable(music_path)
       THEN /\ music_clip' = _loop_audio(music_path.dur, d)
            /\ audio' = music_clip'
            /\ pc' = "ready"
       ELSE /\ pc' = "OSError"
            /\ UNCHANGED <<music_clip, audio>>
  ELSE /\ pc' = "ready"
       /\ UNCHANGED <<music_clip, audio>>

\* lines 595-611: resolve speed and duration
ResolveSchedule ==
  /\ pc = "rendered"
  /\ IF args.narration
     THEN IF IsZero(duration)
          THEN /\ pc' = "ZeroDivisionError"
               /\ UNCHANGED <<scroll_speed, duration, music_clip, audio>>
          ELSE /\ scroll_speed' = NarrationSpeed(max_scroll, duration)
               /\ pc' = "ready"
               /\ UNCHANGED <<duration, music_clip, audio>>
     ELSE IF IsZero(args.max_duration)
          THEN /\ pc' = "ZeroDivisionError"
               /\ UNCHANGED <<scroll_speed, duration, music_clip, audio>>
          ELSE LET s == EffectiveSpeed(scroll_speed,
                                       MinSpeed(max_scroll, args.max_duration))
               IN  /\ scroll_speed' = s
                   /\ IF IsZero(s)
                      THEN /\ pc' = "ZeroDivisionError"
                           /\ UNCHANGED <<duration, music_clip, audio>>
                      ELSE /\ duration' =
                                SpeedDuration(max_scroll, s, args.max_duration)
                           /\ MusicOnly(duration')
  /\ UNCHANGED <<args, tts_dur, wrapped, assets, narration_clip, max_scroll,
                 total_height, bg_float, text_rgb_float, text_alpha,
                 text_inv_alpha, t, y, frame, music_path, background_path,
                 warned, drawn, cursor_y, center_y, wvars, xvars>>

\* Faulty variant of make_frame: the background is attenuated in place
\* (bg_float *= text_inv_alpha[y:y+HEIGHT]) before the text is added.
make_frame_inplace(tt) ==
  /\ pc = "ready"
  /\ t' = tt
  /\ y' = ScrollOffset(tt, scroll_speed, max_scroll)
  /\ frame' = ComposeFrame(bg_float, text_rgb_float, text_alpha,
                           text_inv_alpha, y')
  /\ bg_float' =
       IF frame'.error = "None"
       THEN LET i_s == PySlice(text_inv_alpha, y', y' + HEIGHT)
            IN  [r \in 0..(HEIGHT - 1) |-> (bg_float[r] * i_s[r]) \div ALPHA_MAX]
       ELSE bg_float
  /\ UNCHANGED <<args, tts_dur, wrapped, assets, pc, narration_clip, duration,
                 scroll_speed, max_scroll, total_height,
                 text_rgb_float, text_alpha, text_inv_alpha, music_path,
                 background_path, warned, music_clip, audio, drawn, cursor_y,
                 center_y, wvars, xvars>>

\* lines 615-617: one call make_frame(tt)
make_frame(tt) ==
  /\ pc = "ready"
  /\ t' = tt
  /\ y' = ScrollOffset(tt, scroll_speed, max_scroll)
  /\ frame' = ComposeFrame(bg_float, text_rgb_float, text_alpha,
                           text_inv_alpha, y')
  /\ UNCHANGED <<args, tts_dur, wrapped, assets, pc, narration_clip, duration,
                 scroll_speed, max_scroll, total_height, bg_float,
                 text_rgb_float, text_alpha, text_inv_alpha, music_path,
                 background_path, warned, music_clip, audio, drawn, cursor_y,
                 center_y, wvars, xvars>>

RequestFrame == \E tt \in Ticks : make_frame(tt)

Next ==
  \/ ResolveMusic
  \/ GenerateNarration
  \/ RenderLayers
  \/ ResolveSchedule
  \/ RequestFrame

Spec == Init /\ [][Next]_vars

(***************************************************************************)
(* _wrap_markup: inputs                                                    *)
(***************************************************************************)
\* Word = (text, bold, italic, strikethrough)
WordTexts == {"a", "bb"}
WordStyles ==
  { <<FALSE, FALSE, FALSE>>, <<TRUE, FALSE, FALSE>>,
    <<FALSE, TRUE, TRUE>>, <<TRUE, TRUE, FALSE>> }
Words == {<<w, st[1], st[2], st[3]>> : w \in WordTexts, st \in WordStyles}
WordSeqs == UNION {[1..n -> Words] : n \in 0..MaxWords}

\* Font metrics: what ImageDraw.textlength(text, font=fonts[name]) returns.
\* wb is the regular width of "bb", eb what a bold face adds to a word.
FontTable(wb, eb) ==
  [regular     |-> [x \in WordTexts \cup {" "} |-> IF x = "bb" THEN wb ELSE 1],
   italic      |-> [x \in WordTexts \cup {" "} |-> IF x = "bb" THEN wb ELSE 1],
   bold        |-> [x \in WordTexts \cup {" "} |-> (IF x = "bb" THEN wb ELSE 1) + eb],
   bold_italic |-> [x \in WordTexts \cup {" "} |-> (IF x = "bb" THEN wb ELSE 1) + eb]]
FontTables == {FontTable(wb, eb) : wb \in 2..MaxWordW, eb \in 0..1}
MaxWidths == {2, MaxWordW + 1}

(***************************************************************************)
(* _wrap_markup: the pieces                                                *)
(***************************************************************************)
\* _pick_font
_pick_font(f, bold, italic) ==
  IF bold /\ italic THEN f.bold_italic
  ELSE IF bold THEN f.bold
  ELSE IF italic THEN f.italic
  ELSE f.regular

\* dummy.textlength(text_str, font=font)
textlength(x, font) == font[x]

\* line 228 / 252: space_w
space_w(f) == textlength(" ", f.regular)

\* line 234: word_w
word_w(word, f) == textlength(word[1], _pick_font(f, word[2], word[3]))

\* line 235: gap = space_w if current_line else 0
Gap(cl, f) == IF cl # <<>> THEN space_w(f) ELSE 0

\* Faulty variant of Fits: a word that fills the line exactly is refused.
FitsStrictly(cw, gap, ww, mw) == cw + gap + ww < mw

\* Faulty variant of Fits: the inter-word space is not counted.
FitsWithoutGap(cw, gap, ww, mw) == cw + ww <= mw

\* line 236: the fit test
Fits(cw, gap, ww, mw) == cw + gap + ww <= mw

\* Faulty variant of CloseLine: the current line is emitted even when empty.
CloseLineAlways(ls, cl) == Append(ls, cl)

\* lines 240-241 and 245-246: a line is emitted only when it holds a word
CloseLine(ls, cl) == IF cl # <<>> THEN Append(ls, cl) ELSE ls

RECURSIVE SumWidths(_, _, _)
\* sum(textlength(w, font=_pick_font(fonts, b, i)) for w, b, i, _ in line)
SumWidths(line, f, i) ==
  IF i > Len(line) THEN 0 ELSE word_w(line[i], f) + SumWidths(line, f, i + 1)

\* _line_pixel_width
_line_pixel_width(line, f) ==
  SumWidths(line, f, 1) + space_w(f) * (Len(line) - 1)

(***************************************************************************)
(* _wrap_markup: the state machine                                         *)
(***************************************************************************)
VideoIdle ==
  /\ args = None /\ tts_dur = None /\ wrapped = None /\ assets = None
  /\ pc = "idle" /\ narration_clip = None /\ duration = None
  /\ scroll_speed = None /\ max_scroll = 0 /\ total_height = 0
  /\ bg_float = None /\ text_rgb_float = None /\ text_alpha = None
  /\ text_inv_alpha = None /\ t = None /\ y = 0 /\ frame = None
  /\ music_path = NoMusic /\ background_path = "unset" /\ warned = FALSE
  /\ music_clip = None /\ audio = None /\ drawn = None /\ cursor_y = 0
  /\ center_y = 0

WrapInit ==
  /\ tagged_words \in WordSeqs
  /\ fonts \in FontTables
  /\ max_width \in MaxWidths
  /\ lines = <<>>
  /\ current_line = <<>>
  /\ current_w = 0
  /\ widx = 1
  /\ wpc = "start"

\* lines 223-229: no words, no lines; otherwise enter the loop
WrapStart ==
  /\ wpc = "start"
  /\ wpc' = IF tagged_words = <<>> THEN "done" ELSE "loop"
  /\ UNCHANGED <<tagged_words, fonts, max_width, lines, current_line,
                 current_w, widx, vvars, xvars>>

\* lines 231-243: one iteration of the for loop
WrapWord ==
  /\ wpc = "loop"
  /\ widx <= Len(tagged_words)
  /\ LET word == tagged_words[widx]
         ww == word_w(word, fonts)
         gap == Gap(current_line, fonts)
     IN  IF Fits(current_w, gap, ww, max_width)
         THEN /\ current_line' = Append(current_line, word)
              /\ current_w' = current_w + gap + ww
              /\ UNCHANGED lines
         ELSE /\ lines' = CloseLine(lines, current_line)
              /\ current_line' = <<word>>
              /\ current_w' = ww
  /\ widx' = widx + 1
  /\ UNCHANGED <<tagged_words, fonts, max_width, wpc, vvars, xvars>>

\* lines 245-247: flush the last line and return
WrapFinish ==
  /\ wpc = "loop"
  /\ widx > Len(tagged_words)
  /\ lines' = CloseLine(lines, current_line)
  /\ wpc' = "done"
  /\ UNCHANGED <<tagged_words, fonts, max_width, current_line, current_w,
                 widx, vvars, xvars>>

WrapNext == WrapStart \/ WrapWord \/ WrapFinish

InitWrap == WrapInit /\ VideoIdle /\ XIdle

SpecWrap == InitWrap /\ [][WrapNext]_vars

(***************************************************************************)
(* _parse_inline: inputs                                                   *)
(* A string is a sequence of one-character strings.                        *)
(***************************************************************************)
\* at most MaxTokens tokens per paragraph
MaxTokens == 4

\* the backtick character, written as the grave accent it is
Backtick == "grave"

\* the pieces paragraphs are put together from: a letter, a blank, the
\* emphasis delimiters, the superscript and the code marker
Tokens ==
  { <<"a">>, <<" ">>, <<"*">>, <<"*", "*">>, <<"*", "*", "*">>, <<"_">>,
    <<"~", "~">>, <<"^">>, <<Backtick>> }

RECURSIVE Concat(_, _)
Concat(ts, i) == IF i > Len(ts) THEN <<>> ELSE ts[i] \o Concat(ts, i + 1)

Paragraphs ==
  {Concat(ts, 1) : ts \in UNION {[1..n -> Tokens] : n \in 0..MaxTokens}}

(***************************************************************************)
(* _parse_inline: the regular expressions and string methods               *)
(***************************************************************************)
\* the whitespace class of re and of str.split
IsSpace(c) == c = " "

\* d occurs in s at index i
HasAt(s, d, i) ==
  i + Len(d) - 1 <= Len(s) /\ SubSeq(s, i, i + Len(d) - 1) = d

RECURSIVE FindFrom(_, _, _)
\* the least index >= i where d occurs in s, 0 when there is none
FindFrom(s, d, i) ==
  IF i + Len(d) - 1 > Len(s) THEN 0
  ELSE IF HasAt(s, d, i) THEN i
  ELSE FindFrom(s, d, i + 1)

RECURSIVE RunEnd(_, _)
\* the greedy run of non-blank characters from index i (s[i] is not a
\* blank): its last index
RunEnd(s, i) ==
  IF i < Len(s) /\ ~IsSpace(s[i + 1]) THEN RunEnd(s, i + 1) ELSE i

RECURSIVE StripSuperscript(_, _)
\* line 174: re.sub removing every caret followed by a run of non-blank
\* characters, together with that run; the scan is at index i
StripSuperscript(s, i) ==
  IF i > Len(s) THEN <<>>
  ELSE IF s[i] = "^" /\ i < Len(s) /\ ~IsSpace(s[i + 1])
  THEN StripSuperscript(s, RunEnd(s, i + 1) + 1)
  ELSE <<s[i]>> \o StripSuperscript(s, i + 1)

RECURSIVE StripCode(_, _)
\* line 175: re.sub replacing every pair of backticks and the text between
\* them by that text; the scan is at index i
StripCode(s, i) ==
  IF i > Len(s) THEN <<>>
  ELSE IF s[i] = Backtick /\ FindFrom(s, <<Backtick>>, i + 1) # 0
  THEN LET j == FindFrom(s, <<Backtick>>, i + 1)
       IN  SubSeq(s, i + 1, j - 1) \o StripCode(s, j + 1)
  ELSE <<s[i]>> \o StripCode(s, i + 1)

\* line 178: the delimiters of the alternatives of pattern, in its order
SpanDelims ==
  << <<"*", "*", "*">>, <<"*", "*">>, <<"*">>,
     <<"~", "~", "~">>, <<"~", "~">>, <<"_">> >>

\* one alternative (delimiter d, lazy any-text, delimiter d; re.DOTALL)
\* tried at index i: the index of the last character of the match, 0 when it
\* does not match there
SpanEnd(s, d, i) ==
  IF HasAt(s, d, i)
  THEN LET j == FindFrom(s, d, i + Len(d))
       IN  IF j = 0 THEN 0 ELSE j + Len(d) - 1
  ELSE 0

RECURSIVE FirstAlt(_, _, _)
\* the alternation at index i: the first alternative, from the k-th on, that
\* matches there
FirstAlt(s, i, k) ==
  IF k > Len(SpanDelims) THEN 0
  ELSE LET e == SpanEnd(s, SpanDelims[k], i)
       IN  IF e # 0 THEN e ELSE FirstAlt(s, i, k + 1)

RECURSIVE ReSplit(_, _, _)
\* line 179: re.split(pattern, text) with its one capturing group: the text
\* between matches and the matches, alternating.  from is where the pending
\* unmatched text starts, i the scan position.
ReSplit(s, from, i) ==
  IF i > Len(s) THEN <<SubSeq(s, from, Len(s))>>
  ELSE LET e == FirstAlt(s, i, 1)
       IN  IF e = 0 THEN ReSplit(s, from, i + 1)
           ELSE <<SubSeq(s, from, i - 1), SubSeq(s, i, e)>>
                  \o ReSplit(s, e + 1, e + 1)

\* str.startswith, str.endswith
StartsWith(s, d) == HasAt(s, d, 1)
EndsWith(s, d) == Len(s) >= Len(d) /\ SubSeq(s, Len(s) - Len(d) + 1, Len(s)) = d

\* seg[k:-k]
Inner(seg, k) ==
  SubSeq(seg, SliceIndex(k, Len(seg)) + 1, SliceIndex(-k, Len(seg)))

RECURSIVE PySplit(_, _, _)
\* str.split(): the maximal runs of non-blank characters from index i on, cur
\* being the run under way
PySplit(s, i, cur) ==
  IF i > Len(s) THEN (IF cur = <<>> THEN <<>> ELSE <<cur>>)
  ELSE IF IsSpace(s[i])
  THEN (IF cur = <<>> THEN <<>> ELSE <<cur>>) \o PySplit(s, i + 1, <<>>)
  ELSE PySplit(s, i + 1, Append(cur, s[i]))

\* lines 183-200: the style flags and the inner text of one segment
Classify(seg) ==
  IF StartsWith(seg, <<"*", "*", "*">>) /\ EndsWith(seg, <<"*", "*", "*">>)
  THEN [bold |-> TRUE, italic |-> TRUE, strike |-> FALSE, inner |-> Inner(seg, 3)]
  ELSE IF StartsWith(seg, <<"*", "*">>) /\ EndsWith(seg, <<"*", "*">>)
  THEN [bold |-> TRUE, italic |-> FALSE, strike |-> FALSE, inner |-> Inner(seg, 2)]
  ELSE IF StartsWith(seg, <<"*">>) /\ EndsWith(seg, <<"*">>)
  THEN [bold |-> FALSE, italic |-> TRUE, strike |-> FALSE, inner |-> Inner(seg, 1)]
  ELSE IF StartsWith(seg, <<"~", "~">>) /\ EndsWith(seg, <<"~", "~">>)
  THEN [bold |-> FALSE, italic |-> FALSE, strike |-> TRUE, inner |-> Inner(seg, 2)]
  ELSE IF StartsWith(seg, <<"_">>) /\ EndsWith(seg, <<"_">>)
  THEN [bold |-> FALSE, italic |-> TRUE, strike |-> FALSE, inner |-> Inner(seg, 1)]
  ELSE [bold |-> FALSE, italic |-> FALSE, strike |-> FALSE, inner |-> seg]

\* lines 202-203: the Word tuples one segment appends to result
SegmentWords(seg) ==
  LET c == Classify(seg)
      ws == PySplit(c.inner, 1, <<>>)
  IN  [k \in 1..Len(ws) |-> <<ws[k], c.bold, c.italic, c.strike>>]

(***************************************************************************)
(* _parse_inline: the state machine                                        *)
(***************************************************************************)
ParseInit ==
  /\ paragraph \in Paragraphs
  /\ text = paragraph
  /\ segments = <<>>
  /\ seg_idx = 0
  /\ result = <<>>
  /\ ppc = "start"

\* lines 174-175: superscripts removed, code backticks stripped
StripAnnotations ==
  /\ ppc = "start"
  /\ text' = StripCode(StripSuperscript(text, 1), 1)
  /\ ppc' = "stripped"
  /\ UNCHANGED <<paragraph, segments, seg_idx, result, vvars, wvars, fvars, svars, nvars>>

\* lines 178-181: split on the emphasis spans
SplitSpans ==
  /\ ppc = "stripped"
  /\ segments' = ReSplit(text, 1, 1)
  /\ seg_idx' = 1
  /\ ppc' = "loop"
  /\ UNCHANGED <<paragraph, text, result, vvars, wvars, fvars, svars, nvars>>

\* lines 182-203: one iteration of the loop over the segments
ParseSegment ==
  /\ ppc = "loop"
  /\ seg_idx <= Len(segments)
  /\ result' = result \o SegmentWords(segments[seg_idx])
  /\ seg_idx' = seg_idx + 1
  /\ UNCHANGED <<paragraph, text, segments, ppc, vvars, wvars, fvars, svars, nvars>>

\* line 205
ParseReturn ==
  /\ ppc = "loop"
  /\ seg_idx > Len(segments)
  /\ ppc' = "done"
  /\ UNCHANGED <<paragraph, text, segments, seg_idx, result, vvars, wvars, fvars, svars, nvars>>

ParseNext == StripAnnotations \/ SplitSpans \/ ParseSegment \/ ParseReturn

InitParse ==
  ParseInit /\ VideoIdle /\ WrapIdle /\ FetchIdle /\ ScrapeIdle /\ NIdle

SpecParse == InitParse /\ [][ParseNext]_vars

(***************************************************************************)
(* fetch_json (src/scrape_nosleep.py): rate limiter and retry loop         *)
(* Time is counted in whole seconds.                                       *)
(***************************************************************************)
MIN_REQUEST_GAP == 6
\* default of the parameter `retries`
RETRIES == 4
\* first wait of the exponential backoff
BACKOFF_BASE == 60

\* at most MaxCalls calls of fetch_json in a run
MaxCalls == 2

\* time.time() when the program starts: later than MIN_REQUEST_GAP after the
\* initial _last_request_at = 0.0
Epoch == 10 * MIN_REQUEST_GAP

\* seconds a caller spends between two calls (scrape_all sleeps 10)
CallGaps == {0, 1, 10}
\* seconds until urlopen returns or raises
Latencies == {0, 1}
\* the Retry-After header of a 429 response: absent, a number of seconds, or
\* an HTTP date
RetryAfters ==
  { [kind |-> "absent", secs |-> 0],
    [kind |-> "seconds", secs |-> 0],
    [kind |-> "seconds", secs |-> 7],
    [kind |-> "date", secs |-> 0] }

RECURSIVE Pow2(_)
Pow2(n) == IF n = 0 THEN 1 ELSE 2 * Pow2(n - 1)

\* line 77: wait (for a header int() can read)
Wait(header, a) ==
  IF header.kind = "seconds" THEN header.secs
  ELSE BACKOFF_BASE * Pow2(a - 1)

\* lines 62-64: the seconds the rate limiter sleeps
LimiterSleep(clock, last) ==
  IF clock - last < MIN_REQUEST_GAP THEN MIN_REQUEST_GAP - (clock - last) ELSE 0

FetchInit ==
  /\ now = Epoch
  /\ _last_request_at = 0
  /\ attempt = 0
  /\ fpc = "idle"
  /\ calls = 0
  /\ requests = 0
  /\ last_gap = 0
  /\ outcome = "none"
  /\ retry_after = [kind |-> "unset", secs |-> 0]
  /\ wait = 0

\* a caller calls fetch_json(url), some time after the previous call ended
CallFetch ==
  /\ fpc = "idle"
  /\ calls < MaxCalls
  /\ \E d \in CallGaps : now' = now + d
  /\ calls' = calls + 1
  /\ fpc' = "limiter"
  /\ outcome' = "none"
  /\ UNCHANGED <<_last_request_at, attempt, requests, last_gap, vvars, wvars,
                 pvars, svars, nvars, retry_after, wait>>

\* lines 62-66: sleep until MIN_REQUEST_GAP has passed, enter the loop
RateLimit ==
  /\ fpc = "limiter"
  /\ now' = now + LimiterSleep(now, _last_request_at)
  /\ attempt' = 1
  /\ fpc' = "loop"
  /\ UNCHANGED <<_last_request_at, calls, requests, last_gap, outcome, vvars,
                 wvars, pvars, svars, nvars, retry_after, wait>>

\* lines 66-70: the next attempt stamps _last_request_at and sends the request
SendRequest ==
  /\ fpc = "loop"
  /\ attempt <= RETRIES
  /\ _last_request_at' = now
  /\ requests' = requests + 1
  /\ last_gap' = IF requests = 0 THEN 0 ELSE now - _last_request_at
  /\ fpc' = "sent"
  /\ UNCHANGED <<now, attempt, calls, outcome, vvars, wvars, pvars, svars, nvars, retry_after, wait>>

\* lines 70-71: the response is read and decoded
Respond200 ==
  /\ fpc = "sent"
  /\ \E d \in Latencies : now' = now + d
  /\ outcome' = "json"
  /\ fpc' = "idle"
  /\ UNCHANGED <<_last_request_at, attempt, calls, requests, last_gap, vvars,
                 wvars, pvars, svars, nvars, retry_after, wait>>

\* lines 72-80: HTTP 429, wait and go round the loop
Respond429 ==
  /\ fpc = "sent"
  /\ \E d \in Latencies, ra \in RetryAfters :
       /\ retry_after' = ra
       /\ IF ra.kind = "date"
          THEN \* int(retry_after) raises
               /\ now' = now + d
               /\ outcome' = "ValueError"
               /\ fpc' = "idle"
               /\ UNCHANGED <<attempt, wait>>
          ELSE /\ wait' = Wait(ra, attempt)
               /\ now' = now + d + wait'
               /\ attempt' = attempt + 1
               /\ fpc' = "loop"
               /\ UNCHANGED outcome
  /\ UNCHANGED <<_last_request_at, calls, requests, last_gap, vvars, wvars,
                 pvars, svars, nvars>>

\* lines 81-82: any other HTTP error is raised again
RespondError ==
  /\ fpc = "sent"
  /\ \E d \in Latencies : now' = now + d
  /\ outcome' = "HTTPError"
  /\ fpc' = "idle"
  /\ UNCHANGED <<_last_request_at, attempt, calls, requests, last_gap, vvars,
                 wvars, pvars, svars, nvars, retry_after, wait>>

\* line 83: the loop ran out of attempts
GiveUp ==
  /\ fpc = "loop"
  /\ attempt > RETRIES
  /\ outcome' = "RuntimeError"
  /\ fpc' = "idle"
  /\ UNCHANGED <<now, _last_request_at, attempt, calls, requests, last_gap,
                 vvars, wvars, pvars, svars, nvars, retry_after, wait>>

FetchNext ==
  \/ CallFetch
  \/ RateLimit
  \/ SendRequest
  \/ Respond200
  \/ Respond429
  \/ RespondError
  \/ GiveUp

InitFetch ==
  FetchInit /\ VideoIdle /\ WrapIdle /\ ParseIdle /\ ScrapeIdle /\ NIdle

SpecFetch == InitFetch /\ [][FetchNext]_vars

(***************************************************************************)
(* main of src/scrape_nosleep.py: merging scraped stories into the file    *)
(* A story is a record of its id, its score and its other fields (body).   *)
(***************************************************************************)
\* len(COMPREHENSIVE_PASSES)
COMPREHENSIVE_PASSES == 5

\* story ids are 1..MaxStoryId
MaxStoryId == 3

Scores == {1, 2}
\* stories as an earlier run saved them, and as Reddit returns them now
SavedPool == [id : 1..MaxStoryId, score : Scores, body : {"saved"}]
FreshPool == [id : 1..MaxStoryId, score : Scores, body : {"fresh"}]

IdsOf(seq) == {seq[i].id : i \in DOMAIN seq}

\* the file an earlier run left: no id twice, sorted by score, at most two
\* stories; a file that does not exist counts as the empty list
Files ==
  { f \in UNION {[1..n -> SavedPool] : n \in 0..2} :
      /\ \A i, j \in DOMAIN f : f[i].id = f[j].id => i = j
      /\ \A i, j \in DOMAIN f : i < j => f[i].score >= f[j].score }

\* what scrape_subreddit returns for one subreddit: at most one story
SubredditResults == UNION {[1..n -> FreshPool] : n \in 0..1}

RECURSIVE Dedup(_, _, _)
\* lines 207-210: the stories of seq from index i on whose id is not in seen,
\* each id once
Dedup(seq, i, seen) ==
  IF i > Len(seq) THEN <<>>
  ELSE IF seq[i].id \in seen THEN Dedup(seq, i + 1, seen)
  ELSE <<seq[i]>> \o Dedup(seq, i + 1, seen \cup {seq[i].id})

\* one story put into a list sorted by descending score, behind the stories
\* of at least its score
InsertByScore(sorted, st) ==
  LET k == Cardinality({i \in DOMAIN sorted : sorted[i].score >= st.score})
  IN  SubSeq(sorted, 1, k) \o <<st>> \o SubSeq(sorted, k + 1, Len(sorted))

RECURSIVE SortByScore(_, _)
\* list.sort(key=score, reverse=True), a stable sort: the first n stories
\* of seq in sorted order
SortByScore(seq, n) ==
  IF n = 0 THEN <<>> ELSE InsertByScore(SortByScore(seq, n - 1), seq[n])

\* scrape_all over two subreddits
scrape_all(first, second) ==
  LET all_stories == Dedup(first \o second, 1, {})
  IN  SortByScore(all_stories, Len(all_stories))

\* Faulty variant of NewStories: the id test is left out.
NewStoriesAll(fr, ids) == fr

\* line 296: new_stories
NewStories(fr, ids) == SelectSeq(fr, LAMBDA st : st.id \notin ids)

\* line 280: len(passes)
NumPasses == IF comprehensive THEN COMPREHENSIVE_PASSES ELSE 1

ScrapeInit ==
  /\ out_file \in Files
  /\ file_before = out_file
  /\ comprehensive \in BOOLEAN
  /\ existing_stories = <<>>
  /\ existing_ids = {}
  /\ pass_idx = 0
  /\ fresh = <<>>
  /\ total_new = 0
  /\ spc = "start"

\* lines 273-281: load the file
LoadExisting ==
  /\ spc = "start"
  /\ existing_stories' = out_file
  /\ existing_ids' = IdsOf(out_file)
  /\ pass_idx' = 1
  /\ spc' = "pass"
  /\ UNCHANGED <<out_file, file_before, comprehensive, fresh, total_new,
                 vvars, wvars, pvars, fvars, nvars>>

\* lines 283-294: one pass scrapes the subreddits
ScrapeAll ==
  /\ spc = "pass"
  /\ pass_idx <= NumPasses
  /\ \E first, second \in SubredditResults : fresh' = scrape_all(first, second)
  /\ spc' = "merge"
  /\ UNCHANGED <<out_file, file_before, comprehensive, existing_stories,
                 existing_ids, pass_idx, total_new, vvars, wvars, pvars, fvars, nvars>>

\* lines 296-301: the new stories of the pass are appended
MergeFresh ==
  /\ spc = "merge"
  /\ LET new_stories == NewStories(fresh, existing_ids)
     IN  /\ existing_stories' = existing_stories \o new_stories
         /\ existing_ids' = existing_ids \cup IdsOf(new_stories)
         /\ total_new' = total_new + Len(new_stories)
  /\ pass_idx' = pass_idx + 1
  /\ spc' = "pass"
  /\ UNCHANGED <<out_file, file_before, comprehensive, fresh, vvars, wvars,
                 pvars, fvars, nvars>>

\* lines 303-312: sort the combined list and write the file
SortAndSave ==
  /\ spc = "pass"
  /\ pass_idx > NumPasses
  /\ existing_stories' = SortByScore(existing_stories, Len(existing_stories))
  /\ out_file' = existing_stories'
  /\ spc' = "saved"
  /\ UNCHANGED <<file_before, comprehensive, existing_ids, pass_idx, fresh,
                 total_new, vvars, wvars, pvars, fvars, nvars>>

\* an exception that scrape_all does not catch (a listing without the
\* expected keys) ends the run before the file is written
ScrapeRaises ==
  /\ spc = "pass"
  /\ pass_idx <= NumPasses
  /\ spc' = "raised"
  /\ UNCHANGED <<out_file, file_before, comprehensive, existing_stories,
                 existing_ids, pass_idx, fresh, total_new, vvars, wvars,
                 pvars, fvars, nvars>>

ScrapeNext ==
  \/ LoadExisting
  \/ ScrapeAll
  \/ MergeFresh
  \/ SortAndSave
  \/ ScrapeRaises

InitScrape ==
  ScrapeInit /\ VideoIdle /\ WrapIdle /\ ParseIdle /\ FetchIdle /\ NIdle

SpecScrape == InitScrape /\ [][ScrapeNext]_vars

(***************************************************************************)
(* scrape_subreddit (src/scrape_nosleep.py): the pagination loop           *)
(* A post is a record of its is_self flag and of the number of words of    *)
(* the body fetch_story_body returns for it (0: no body).                  *)
(***************************************************************************)
MAX_PAGES == 10
MIN_WORDS == 50
\* the upper word limit of line 166
MAX_WORDS == 1000

\* at most MaxPosts posts on a listing page
MaxPosts == 2

Targets == {0, 1, 3}
WordCounts == {0, MIN_WORDS - 1, MIN_WORDS, MAX_WORDS, MAX_WORDS + 1}
Posts ==
  [is_self : {TRUE}, words : WordCounts]
    \cup [is_self : {FALSE}, words : {MIN_WORDS}]
\* data["data"]["children"] of a listing page
Listings == UNION {[1..n -> Posts] : n \in 0..MaxPosts}
\* data["data"].get("after") or ""
Cursors == {"", "t3_next"}

\* Faulty variant of Qualifies: the upper word limit is not applied.
QualifiesUnbounded(post) == post.is_self /\ post.words >= MIN_WORDS

\* lines 152-168: the post is kept
Qualifies(post) ==
  /\ post.is_self
  /\ post.words # 0
  /\ ~(post.words < MIN_WORDS)
  /\ ~(post.words > MAX_WORDS)

RECURSIVE Collect(_, _, _, _)
\* lines 145-182: the loop over the posts of a page from post i on, acc being
\* the stories collected so far
Collect(posts, i, acc, tgt) ==
  IF i > Len(posts) \/ Len(acc) >= tgt THEN acc
  ELSE IF Qualifies(posts[i]) THEN Collect(posts, i + 1, Append(acc, posts[i]), tgt)
  ELSE Collect(posts, i + 1, acc, tgt)

\* line 125: the loop condition
Continue == Len(stories) < target /\ page < MAX_PAGES

SubredditInit ==
  /\ target \in Targets
  /\ stories = <<>>
  /\ after = ""
  /\ page = 0
  /\ listing_fetches = 0
  /\ stop = "none"
  /\ qpc = "loop"

\* lines 125, 190-192: the loop condition fails, the stories are returned
LoopExit ==
  /\ qpc = "loop"
  /\ ~Continue
  /\ stop' = IF Len(stories) >= target THEN "target" ELSE "pages"
  /\ qpc' = "returned"
  /\ UNCHANGED <<target, stories, after, page, listing_fetches, not_q>>

\* lines 126-136: fetch_json raises, the loop is left
PageFails ==
  /\ qpc = "loop"
  /\ Continue
  /\ page' = page + 1
  /\ listing_fetches' = listing_fetches + 1
  /\ stop' = "error"
  /\ qpc' = "returned"
  /\ UNCHANGED <<target, stories, after, not_q>>

\* lines 126-138: the listing lacks the expected keys, KeyError leaves the
\* function
PageMalformed ==
  /\ qpc = "loop"
  /\ Continue
  /\ page' = page + 1
  /\ listing_fetches' = listing_fetches + 1
  /\ stop' = "KeyError"
  /\ qpc' = "raised"
  /\ UNCHANGED <<target, stories, after, not_q>>

\* lines 126-143: the page holds no post
PageEmpty ==
  /\ qpc = "loop"
  /\ Continue
  /\ page' = page + 1
  /\ listing_fetches' = listing_fetches + 1
  /\ after' \in Cursors
  /\ stop' = "empty"
  /\ qpc' = "returned"
  /\ UNCHANGED <<target, stories, not_q>>

\* lines 126-186: a page of posts is worked through
PageListed ==
  /\ qpc = "loop"
  /\ Continue
  /\ page' = page + 1
  /\ listing_fetches' = listing_fetches + 1
  /\ \E posts \in Listings \ {<<>>}, cursor \in Cursors :
       /\ stories' = Collect(posts, 1, stories, target)
       /\ after' = cursor
  /\ IF after' = ""
     THEN stop' = "cursor" /\ qpc' = "returned"
     ELSE UNCHANGED <<stop, qpc>>
  /\ UNCHANGED <<target, not_q>>

SubredditNext ==
  \/ LoopExit
  \/ PageFails
  \/ PageMalformed
  \/ PageEmpty
  \/ PageListed

InitSubreddit ==
  /\ SubredditInit /\ VideoIdle /\ WrapIdle /\ ParseIdle /\ FetchIdle
  /\ ScrapeIdle /\ UploaderIdle /\ TokenIdle /\ TikTokIdle

\* the function runs on its own: a started call keeps taking steps
SpecSubreddit ==
  InitSubreddit /\ [][SubredditNext]_vars /\ WF_vars(SubredditNext)

(***************************************************************************)
(* main of upload_youtube.py, upload_tiktok.py and upload_instagram.py     *)
(* The three mains share their structure; YouTube adds the --sync step.    *)
(* The upload log is a function from story ids to entries.                 *)
(***************************************************************************)
\* runs of one uploader that are followed
MaxRuns == 2

Platforms == {"youtube", "tiktok", "instagram"}
\* nosleep_stories.json: the ids of the stories in file order
StoriesFile == <<3, 1, 2>>
StoryIds == {StoriesFile[k] : k \in DOMAIN StoriesFile}
\* --limit N
Limits == {0, 1, 3}

\* the entry main writes for a story
Entry(how, run) == [by |-> how, run |-> run]

\* a log left by earlier runs
EarlierLogs == {[id \in S |-> Entry("upload", 0)] : S \in SUBSET StoryIds}

\* d[k] = v on a dict
DictSet(d, k, v) == [x \in DOMAIN d \cup {k} |-> IF x = k THEN v ELSE d[x]]

RECURSIVE PendingAll(_, _, _, _)
\* Faulty variant of Pending: the log is not consulted.
PendingAll(file, k, log, videos) ==
  IF k > Len(file) THEN <<>>
  ELSE IF file[k] \notin videos THEN PendingAll(file, k + 1, log, videos)
  ELSE <<file[k]>> \o PendingAll(file, k + 1, log, videos)

RECURSIVE Pending(_, _, _, _)
\* the loop that builds `pending`, from story k on: rendered and not logged,
\* in story-file order
Pending(file, k, log, videos) ==
  IF k > Len(file) THEN <<>>
  ELSE IF file[k] \in DOMAIN log THEN Pending(file, k + 1, log, videos)
  ELSE IF file[k] \notin videos THEN Pending(file, k + 1, log, videos)
  ELSE <<file[k]>> \o Pending(file, k + 1, log, videos)

\* pending[:n] for n >= 0
Prefix(seq, n) == SubSeq(seq, 1, IF n < Len(seq) THEN n ELSE Len(seq))

\* Faulty variant of LogAfter: the entry is written whatever upload_video did.
LogAlways(log, id, run, ok) == DictSet(log, id, Entry("upload", run))

\* the log after the try statement of the loop: the entry is written only
\* when upload_video returned
LogAfter(log, id, run, ok) ==
  IF ok THEN DictSet(log, id, Entry("upload", run)) ELSE log

\* one call of upload_video as the history keeps it
Call(id, ok) ==
  [id |-> id, run |-> runs, ok |-> ok, logged |-> id \in DOMAIN uploaded_file,
   video |-> id \in rendered, limit |-> limit, pos |-> upload_i]

UploaderInit ==
  /\ platform \in Platforms
  /\ rendered \in SUBSET StoryIds
  /\ uploaded_file \in EarlierLogs
  /\ uploaded = <<>>
  /\ to_upload = <<>>
  /\ upload_i = 0
  /\ limit = 0
  /\ dry_run = FALSE
  /\ sync = FALSE
  /\ runs = 0
  /\ upload_calls = <<>>
  /\ upc = "idle"

\* a run starts: arguments parsed, stories and log loaded; videos rendered
\* since the last run are in the folder
StartRun ==
  /\ upc = "idle"
  /\ runs < MaxRuns
  /\ runs' = runs + 1
  /\ limit' \in Limits
  /\ dry_run' \in BOOLEAN
  /\ sync' \in IF platform = "youtube" THEN BOOLEAN ELSE {FALSE}
  /\ \E more \in SUBSET StoryIds : rendered' = rendered \cup more
  /\ uploaded' = uploaded_file
  /\ to_upload' = <<>>
  /\ upload_i' = 0
  /\ upc' = "loaded"
  /\ UNCHANGED <<platform, uploaded_file, upload_calls, not_u>>

\* upload_youtube.py --sync: stories found on the channel and not in the log
\* get an entry, the log is saved
SyncChannel ==
  /\ upc = "loaded"
  /\ sync
  /\ \E found \in SUBSET StoryIds :
       uploaded' = [id \in DOMAIN uploaded \cup found |->
                      IF id \in DOMAIN uploaded THEN uploaded[id]
                      ELSE Entry("sync", runs)]
  /\ uploaded_file' = uploaded'
  /\ sync' = FALSE
  /\ UNCHANGED <<platform, rendered, to_upload, upload_i, limit, dry_run, runs,
                 upload_calls, upc, not_u>>

\* pending and to_upload are built; nothing pending and --dry-run end the run
CollectPending ==
  /\ upc = "loaded"
  /\ ~sync
  /\ to_upload' = Prefix(Pending(StoriesFile, 1, uploaded, rendered), limit)
  /\ upload_i' = 1
  /\ upc' = IF Pending(StoriesFile, 1, uploaded, rendered) = <<>> \/ dry_run
            THEN "idle" ELSE "uploading"
  /\ UNCHANGED <<platform, rendered, uploaded_file, uploaded, limit, dry_run,
                 sync, runs, upload_calls, not_u>>

\* authentication fails before the first upload (sys.exit, an HTTP error)
AuthFails ==
  /\ upc = "uploading"
  /\ upload_i = 1
  /\ upc' = "idle"
  /\ UNCHANGED <<platform, rendered, uploaded_file, uploaded, to_upload,
                 upload_i, limit, dry_run, sync, runs, upload_calls, not_u>>

\* one iteration of the loop: upload_video returns, the entry is written and
\* the log saved
UploadSucceeds ==
  /\ upc = "uploading"
  /\ upload_i <= Len(to_upload)
  /\ upload_calls' = Append(upload_calls, Call(to_upload[upload_i], TRUE))
  /\ uploaded' = LogAfter(uploaded, to_upload[upload_i], runs, TRUE)
  /\ uploaded_file' = uploaded'
  /\ upload_i' = upload_i + 1
  /\ UNCHANGED <<platform, rendered, to_upload, limit, dry_run, sync, runs,
                 upc, not_u>>

\* one iteration of the loop: upload_video raises; a caught error breaks the
\* loop, any other exception ends the program
UploadFails ==
  /\ upc = "uploading"
  /\ upload_i <= Len(to_upload)
  /\ upload_calls' = Append(upload_calls, Call(to_upload[upload_i], FALSE))
  /\ uploaded' = LogAfter(uploaded, to_upload[upload_i], runs, FALSE)
  /\ uploaded_file' = IF uploaded' = uploaded THEN uploaded_file ELSE uploaded'
  /\ upc' = "idle"
  /\ UNCHANGED <<platform, rendered, to_upload, upload_i, limit, dry_run, sync,
                 runs, not_u>>

\* the loop is through
FinishRun ==
  /\ upc = "uploading"
  /\ upload_i > Len(to_upload)
  /\ upc' = "idle"
  /\ UNCHANGED <<platform, rendered, uploaded_file, uploaded, to_upload,
                 upload_i, limit, dry_run, sync, runs, upload_calls, not_u>>

UploaderNext ==
  \/ StartRun
  \/ SyncChannel
  \/ CollectPending
  \/ AuthFails
  \/ UploadSucceeds
  \/ UploadFails
  \/ FinishRun

InitUploader ==
  /\ UploaderInit /\ VideoIdle /\ WrapIdle /\ ParseIdle /\ FetchIdle
  /\ ScrapeIdle /\ SubredditIdle /\ TokenIdle /\ TikTokIdle

SpecUploader == InitUploader /\ [][UploaderNext]_vars

(***************************************************************************)
(* get_access_token of src/upload_instagram.py                             *)
(* Time is counted in days.  A token dict is a record; a key the dict lacks *)
(* is a field the record lacks.                                            *)
(***************************************************************************)
\* line 166: the refresh margin of 7 * 24 * 3600 seconds
REFRESH_MARGIN == 7
\* expires_in of a long-lived token
TOKEN_LIFETIME == 60

\* calls of get_access_token that are followed
MaxTokenCalls == 3

\* days between two calls
DayGaps == {1, 30, 55}
\* the account _find_ig_user_id can find
IgUsers == {"ig_a", "ig_b"}

\* _exchange_for_long_lived: the response of the token endpoint with the
\* key _fetched_at added; n numbers the access tokens
_exchange_for_long_lived(n, at) ==
  [access_token |-> n, token_type |-> "bearer", expires_in |-> TOKEN_LIFETIME,
   _fetched_at |-> at]

\* _refresh_token
_refresh_token(token, n, at) == _exchange_for_long_lived(n, at)

\* token["ig_user_id"] = value
WithIgUser(token, value) ==
  [k \in DOMAIN token \cup {"ig_user_id"} |->
     IF k = "ig_user_id" THEN value ELSE token[k]]

\* line 165
ExpiresAt(token) == token._fetched_at + token.expires_in

\* line 170 / 204: the return statement
ReturnPair(token) ==
  IF "ig_user_id" \in DOMAIN token
  THEN [kind |-> "pair", access_token |-> token.access_token,
        ig_user_id |-> token.ig_user_id]
  ELSE [kind |-> "KeyError", access_token |-> 0, ig_user_id |-> "none"]

Raised(what) == [kind |-> what, access_token |-> 0, ig_user_id |-> "none"]

TokenInit ==
  /\ token_exists = FALSE
  /\ token_file = <<>>
  /\ today = 0
  /\ token_calls = 0
  /\ had_token = FALSE
  /\ auth_result = NoResult
  /\ first_ig = "none"

\* lines 172-204: no saved token, the full OAuth flow succeeds
Authorise ==
  /\ token_calls < MaxTokenCalls
  /\ ~token_exists
  /\ \E d \in DayGaps, ig \in IgUsers :
       /\ today' = today + d
       /\ token_file' =
            WithIgUser(_exchange_for_long_lived(token_calls + 1, today'), ig)
       /\ first_ig' = ig
  /\ token_exists' = TRUE
  /\ token_calls' = token_calls + 1
  /\ had_token' = FALSE
  /\ auth_result' = ReturnPair(token_file')
  /\ UNCHANGED not_k

\* lines 172-201: no saved token, the flow fails (an HTTP error, or no
\* Instagram account behind the pages)
AuthoriseFails ==
  /\ token_calls < MaxTokenCalls
  /\ ~token_exists
  /\ \E d \in DayGaps : today' = today + d
  /\ token_calls' = token_calls + 1
  /\ had_token' = FALSE
  /\ auth_result' \in {Raised("HTTPError"), Raised("RuntimeError")}
  /\ UNCHANGED <<token_exists, token_file, first_ig, not_k>>

\* lines 163-170: a saved token with at least 7 days left is returned
UseSavedToken ==
  /\ token_calls < MaxTokenCalls
  /\ token_exists
  /\ \E d \in DayGaps : today' = today + d
  /\ ~(ExpiresAt(token_file) - today' < REFRESH_MARGIN)
  /\ token_calls' = token_calls + 1
  /\ had_token' = TRUE
  /\ auth_result' = ReturnPair(token_file)
  /\ UNCHANGED <<token_exists, token_file, first_ig, not_k>>

\* lines 163-170: a saved token with fewer than 7 days left is refreshed,
\* the new token saved, and the pair returned
RefreshSavedToken ==
  /\ token_calls < MaxTokenCalls
  /\ token_exists
  /\ \E d \in DayGaps : today' = today + d
  /\ ExpiresAt(token_file) - today' < REFRESH_MARGIN
  /\ token_file' = _refresh_token(token_file, token_calls + 1, today')
  /\ token_calls' = token_calls + 1
  /\ had_token' = TRUE
  /\ auth_result' = ReturnPair(token_file')
  /\ UNCHANGED <<token_exists, first_ig, not_k>>

\* lines 166-168: the refresh request is refused (raise_for_status)
RefreshFails ==
  /\ token_calls < MaxTokenCalls
  /\ token_exists
  /\ \E d \in DayGaps : today' = today + d
  /\ ExpiresAt(token_file) - today' < REFRESH_MARGIN
  /\ token_calls' = token_calls + 1
  /\ had_token' = TRUE
  /\ auth_result' = Raised("HTTPError")
  /\ UNCHANGED <<token_exists, token_file, first_ig, not_k>>

TokenNext ==
  \/ Authorise
  \/ AuthoriseFails
  \/ UseSavedToken
  \/ RefreshSavedToken
  \/ RefreshFails

InitToken ==
  /\ TokenInit /\ VideoIdle /\ WrapIdle /\ ParseIdle /\ FetchIdle
  /\ ScrapeIdle /\ SubredditIdle /\ UploaderIdle /\ TikTokIdle

SpecToken == InitToken /\ [][TokenNext]_vars

(***************************************************************************)
(* upload_video of src/upload_tiktok.py, and the lines of main that log it *)
(***************************************************************************)
\* line 250: the number of status polls
MAX_POLLS == 30

\* a video has at most MaxChunks chunks
MaxChunks == 2

\* the status a poll reads; a response without data or status counts as
\* "PROCESSING" (line 257)
PollStatuses == {"PROCESSING", "PUBLISH_COMPLETE", "PUBLISH_FAILED"}

\* line 258: the poll loop is left
Terminal(st) == st \in {"PUBLISH_COMPLETE", "PUBLISH_FAILED"}

TikTokInit ==
  /\ chunk_count \in 0..MaxChunks
  /\ chunks_sent = 0
  /\ polls = 0
  /\ status = "unset"
  /\ entry_logged = FALSE
  /\ tpc = "init"

\* lines 205-225: the post is initialised
InitPost ==
  /\ tpc = "init"
  /\ tpc' = "chunks"
  /\ UNCHANGED <<chunk_count, chunks_sent, polls, status, entry_logged, not_t>>

\* line 222: the init request is refused
InitRefused ==
  /\ tpc = "init"
  /\ tpc' = "raised"
  /\ UNCHANGED <<chunk_count, chunks_sent, polls, status, entry_logged, not_t>>

\* lines 230-245: one chunk is put
PutChunk ==
  /\ tpc = "chunks"
  /\ chunks_sent < chunk_count
  /\ chunks_sent' = chunks_sent + 1
  /\ UNCHANGED <<chunk_count, polls, status, entry_logged, tpc, not_t>>

\* line 243: a chunk is refused
ChunkRefused ==
  /\ tpc = "chunks"
  /\ chunks_sent < chunk_count
  /\ tpc' = "raised"
  /\ UNCHANGED <<chunk_count, chunks_sent, polls, status, entry_logged, not_t>>

\* lines 246-250: all chunks are through, the poll loop starts
StartPolling ==
  /\ tpc = "chunks"
  /\ chunks_sent = chunk_count
  /\ tpc' = "polling"
  /\ UNCHANGED <<chunk_count, chunks_sent, polls, status, entry_logged, not_t>>

\* lines 250-259: one poll
Poll ==
  /\ tpc = "polling"
  /\ polls < MAX_POLLS
  /\ ~Terminal(status)
  /\ polls' = polls + 1
  /\ status' \in PollStatuses
  /\ UNCHANGED <<chunk_count, chunks_sent, entry_logged, tpc, not_t>>

\* lines 260-265: after the loop, raise on PUBLISH_FAILED, else return
EndPolling ==
  /\ tpc = "polling"
  /\ polls = MAX_POLLS \/ Terminal(status)
  /\ tpc' = IF status = "PUBLISH_FAILED" THEN "raised" ELSE "returned"
  /\ UNCHANGED <<chunk_count, chunks_sent, polls, status, entry_logged, not_t>>

\* main, lines 331-342: the returned publish_id is logged
LogEntry ==
  /\ tpc = "returned"
  /\ ~entry_logged
  /\ entry_logged' = TRUE
  /\ UNCHANGED <<chunk_count, chunks_sent, polls, status, tpc, not_t>>

TikTokNext ==
  \/ InitPost
  \/ InitRefused
  \/ PutChunk
  \/ ChunkRefused
  \/ StartPolling
  \/ Poll
  \/ EndPolling
  \/ LogEntry

InitTikTok ==
  /\ TikTokInit /\ VideoIdle /\ WrapIdle /\ ParseIdle /\ FetchIdle
  /\ ScrapeIdle /\ SubredditIdle /\ UploaderIdle /\ TokenIdle

SpecTikTok == InitTikTok /\ [][TikTokNext]_vars

(***************************************************************************)
(* Properties of the scroll schedule (Spec)                                *)
(***************************************************************************)
\* A plan is resolved when create_video reaches the frame source.
PlanResolved == pc = "ready"

\* C1: every resolved scroll plan, narration-driven or speed-driven,
\* satisfies speed * duration = max_scroll, whatever the narration duration,
\* the configured speed and max_duration are.
C1_SpeedTimesDuration ==
  PlanResolved => RMul(scroll_speed, duration) = IntR(max_scroll)

C3_EffectiveSpeed ==
  /\ (PlanResolved /\ ~args.narration)
       => LET S == IntR(args.scroll_speed)
              lo == RDiv(IntR(max_scroll), args.max_duration)
          IN  /\ RLe(lo, S) => scroll_speed = S
              /\ RLt(S, lo) => /\ scroll_speed[2] = 1
                               /\ RLe(lo, scroll_speed)
                               /\ RLt(IntR(scroll_speed[1] - 1), lo)
              /\ RLe(S, scroll_speed)
  /\ EffectiveSpeed(IntR(50), MinSpeed(10000, IntR(180))) = IntR(56)
  /\ SpeedDuration(10000, IntR(56), IntR(180)) = Rat(10000, 56)

C3_Witness ==
  /\ PlanResolved /\ ~args.narration
  /\ RLt(IntR(args.scroll_speed), RDiv(IntR(max_scroll), args.max_duration))
  /\ scroll_speed # IntR(args.scroll_speed)

\* C4: the speed/duration derivation never raises a division-by-zero fault,
\* for any configured speed and max_duration the command line accepts and for
\* a zero-duration narration: create_video always gets past it with a
\* duration instead of an error.
C4_NoDivisionByZero == pc # "ZeroDivisionError"

(***************************************************************************)
(* Properties of the frame source (Spec)                                   *)
(***************************************************************************)
FrameReturned == t # None

\* The slices make_frame(t) reads from the text layer for the offset y.
RgbSlice == PySlice(text_rgb_float, y, y + HEIGHT)
AlphaSlice == PySlice(text_alpha, y, y + HEIGHT)

\* C5 (as claimed): make_frame(t) uses the offset
\* min(round(t * speed), max_scroll), t * speed rounded to the nearest pixel.
C5_OffsetRounded ==
  FrameReturned =>
    LET v == PyRound(RMul(t, scroll_speed))
    IN  y = IF max_scroll < v THEN max_scroll ELSE v

\* C5 (amended): make_frame(t) composites the text-layer slice at the offset
\* min(int(t * speed), max_scroll): t * speed with its fraction dropped
\* (truncated towards zero), capped at max_scroll.
C5_OffsetTruncated ==
  FrameReturned =>
    LET x == RMul(t, scroll_speed)
    IN  /\ y <= max_scroll
        /\ y < max_scroll =>
             IF x[1] >= 0
             THEN RLe(IntR(y), x) /\ RLt(x, IntR(y + 1))
             ELSE RLe(x, IntR(y)) /\ RLt(IntR(y - 1), x)
        /\ y = max_scroll =>
             \/ RLe(IntR(max_scroll), x)
             \/ max_scroll = 0 /\ RLt(IntR(-1), x)
        /\ frame = ComposeFrame(bg_float, text_rgb_float, text_alpha,
                                text_inv_alpha, y)

\* a request whose product t * speed has a fraction of at least one half and
\* lies below the stop point: truncation and rounding differ
C5_Witness ==
  /\ FrameReturned
  /\ LET x == RMul(t, scroll_speed)
     IN  /\ x[1] > 0
         /\ 2 * (x[1] - Floor(x) * x[2]) > x[2]
         /\ Floor(x) + 1 < max_scroll
  /\ frame.error = "None"

\* C6: scrolling is clamped at the stop point: every t with
\* t * speed >= max_scroll yields the frame of offset max_scroll.
C6_ClampedAtStop ==
  (FrameReturned /\ RLe(IntR(max_scroll), RMul(t, scroll_speed)))
    => /\ y = max_scroll
       /\ frame.error = "None"
       /\ frame = ComposeFrame(bg_float, text_rgb_float, text_alpha,
                               text_inv_alpha, max_scroll)

\* a request at least one pixel beyond the stop point
C6_Witness ==
  FrameReturned /\ RLe(IntR(max_scroll + 1), RMul(t, scroll_speed))

\* C7: each pixel of a frame is bg * (1 - a) + fg * a with a = alpha / 255
\* (stored as uint8, fraction dropped): a fully opaque text pixel gives
\* exactly the text colour, a fully transparent one exactly the background.
C7_BlendOver ==
  (FrameReturned /\ frame.error = "None" /\ ArrLen(AlphaSlice) = HEIGHT)
    => \A r \in 0..(HEIGHT - 1) :
         LET a == AlphaSlice[r]
             fg == RgbSlice[r]
             bg == bg_float[r]
             out == frame.px[r]
         IN  /\ a = ALPHA_MAX => out = fg
             /\ a = 0 => out = bg
             /\ ALPHA_MAX * out <= bg * (ALPHA_MAX - a) + fg * a
             /\ bg * (ALPHA_MAX - a) + fg * a < ALPHA_MAX * (out + 1)

\* a frame holding an opaque and a transparent text pixel, each over a
\* background pixel of another value than the text pixel
C7_Witness ==
  /\ FrameReturned /\ frame.error = "None" /\ ArrLen(AlphaSlice) = HEIGHT
  /\ \E r \in 0..(HEIGHT - 1) :
       AlphaSlice[r] = ALPHA_MAX /\ RgbSlice[r] # bg_float[r]
  /\ \E r \in 0..(HEIGHT - 1) :
       AlphaSlice[r] = 0 /\ RgbSlice[r] # bg_float[r]

\* The frame a single make_frame(tt) call returns on the buffers as
\* create_video prepared them (lines 581-593), before any other call.
IsolatedFrame(tt) ==
  LET text_arr == TextArr(wrapped, assets)
      rgb == [r \in DOMAIN text_arr |-> text_arr[r][1]]
      alpha == [r \in DOMAIN text_arr |-> text_arr[r][2]]
      inv == [r \in DOMAIN text_arr |-> ALPHA_MAX - text_arr[r][2]]
  IN  ComposeFrame(BgArr(assets), rgb, alpha, inv,
                   ScrollOffset(tt, scroll_speed, MaxScroll(wrapped)))

\* C8: make_frame is deterministic and free of side effects: a call (every
\* step taken from "ready") leaves the background buffer, the text-layer
\* buffers, the speed and max_scroll unchanged, and after any sequence of
\* calls, in any order and with repeats, the frame returned for t is the
\* frame of a single isolated call for t.
C8_FrameSourcePure ==
  /\ [][pc = "ready" =>
          UNCHANGED <<bg_float, text_rgb_float, text_alpha, text_inv_alpha,
                      scroll_speed, max_scroll>>]_vars
  /\ [](FrameReturned => frame = IsolatedFrame(t))

\* a frame returned for a time strictly inside the scroll; calls for the
\* other times precede and follow it in the behaviours explored
C8_Witness ==
  /\ FrameReturned /\ frame.error = "None"
  /\ y > 0
  /\ y < max_scroll

(***************************************************************************)
(* Properties of the layout, the audio track and the assets (Spec)         *)
(***************************************************************************)
\* render_story_image has returned
Rendered == total_height > 0

\* the least element of a non-empty set of integers
MinOf(S) == CHOOSE m \in S : \A x \in S : m <= x

\* C13: the canvas height is exactly the sum of the block heights and the
\* fixed gaps: the drawing cursor after the last subscribe line plus one
\* frame height is total_height, which is body start + body lines * line
\* height + PARAGRAPH_GAP between consecutive paragraphs + 120 + subscribe
\* block height + HEIGHT; the text layer has that many rows.
C13_TotalHeightExact ==
  Rendered =>
    /\ cursor_y + HEIGHT = total_height
    /\ total_height =
         (HEIGHT + BODY_START_OFFSET)
         + Cardinality(drawn.body) * lh_body
         + PARAGRAPH_GAP * (Len(wrapped.para_lines_list) - 1)
         + SUBSCRIBE_GAP
         + Cardinality(drawn.subscribe) * lh_title
         + HEIGHT
    /\ ArrLen(text_alpha) = total_height

\* a body of several paragraphs and several lines
C13_Witness ==
  /\ Rendered
  /\ Len(wrapped.para_lines_list) >= 2
  /\ Cardinality(drawn.body) >= 3

\* C14 (as claimed): the first body line is drawn at exactly HEIGHT pixels
\* below the top of the canvas.
C14_BodyAtFrameHeight ==
  (Rendered /\ drawn.body # {}) => MinOf(drawn.body) = HEIGHT

\* C14 (amended): the first body line is drawn at exactly HEIGHT + 20, 20
\* pixels below the bottom edge of the first frame, so no body line lies
\* inside the first frame [0, HEIGHT): no body line starts there and no pixel
\* of the body colour is there.
C14_BodyBelowFirstFrame ==
  (Rendered /\ drawn.body # {}) =>
    /\ MinOf(drawn.body) = HEIGHT + BODY_START_OFFSET
    /\ \A top \in drawn.body : top >= HEIGHT
    /\ \A r \in 0..(HEIGHT - 1) :
         text_alpha[r] > 0 => text_rgb_float[r] # TEXT_COLOR[1]

\* a body of two paragraphs has been drawn
C14_Witness ==
  /\ Rendered
  /\ Cardinality(drawn.body) >= 2
  /\ Len(wrapped.para_lines_list) >= 2

\* C15: max_scroll = max(0, centre - HEIGHT/2), the centre being the top of
\* the subscribe block plus half its height; when max_scroll > 0, the frame
\* at offset max_scroll shows the row of that centre at mid-frame.
C15_StopAtCtaCentre ==
  Rendered =>
    LET top == MinOf(drawn.subscribe)
        h == Cardinality(drawn.subscribe) * lh_title
    IN  /\ 2 * center_y = 2 * top + h
        /\ 2 * max_scroll =
             IF 2 * center_y > HEIGHT THEN 2 * center_y - HEIGHT ELSE 0
        /\ (FrameReturned /\ y = max_scroll /\ max_scroll > 0) =>
             /\ 2 * (y + (HEIGHT \div 2)) = 2 * top + h
             /\ frame.error = "None"
             /\ frame.px[HEIGHT \div 2] =
                  Blend(bg_float[HEIGHT \div 2], text_rgb_float[center_y],
                        text_alpha[center_y], text_inv_alpha[center_y])

\* a frame returned at the stop point of a story with a two-line subscribe
\* block
C15_Witness ==
  /\ FrameReturned /\ frame.error = "None"
  /\ y = max_scroll /\ max_scroll > 0
  /\ Cardinality(drawn.subscribe) = 2

\* C16: the looped music track lasts exactly the duration of the plan, and
\* so does the mixed track.
C16_LoopedToDuration ==
  music_clip # None => (music_clip = duration /\ audio = duration)

\* C17: with a zero-length body (no body line is drawn), or a zero scroll
\* range, the output is static: every frame is the frame of offset 0.  Stated
\* for the runs with a positive max_duration.
C17_StaticWhenEmpty ==
  (/\ FrameReturned
   /\ drawn.body = {} \/ max_scroll = 0
   /\ RLt(IntR(0), args.max_duration))
    => (y = 0 /\ frame.error = "None")

\* C18: without a usable background image the render fails and no frame is
\* produced; without a usable music track (folder empty or absent) a warning
\* is printed and the render goes on without music instead of failing.
C18_MissingAssets ==
  /\ background_path \in {"empty_dir", "missing"}
       => (pc \notin {"rendered", "ready"} /\ ~FrameReturned)
  /\ warned => music_path = NoMusic
  /\ pc # "OSError"

\* C24: for every requested t >= 0 of a resolved plan the offset y of
\* make_frame lies in 0 .. total_height - HEIGHT, the slice of the text layer
\* it reads has exactly HEIGHT rows, and max_scroll + HEIGHT <= total_height.
C24_OffsetInLayer ==
  /\ Rendered => max_scroll + HEIGHT <= total_height
  /\ FrameReturned =>
       /\ 0 <= y /\ y <= total_height - HEIGHT
       /\ ArrLen(RgbSlice) = HEIGHT
       /\ ArrLen(AlphaSlice) = HEIGHT

\* the wrapped texts of small stories: a title of up to two lines, the
\* empty one included, up to two paragraphs of up to two lines, an empty
\* body being one paragraph of no line
Layouts ==
  [title_lines : 0..2,
   para_lines_list : UNION {[1..n -> 0..2] : n \in 1..2},
   subscribe_lines : 1..2]

\* C30: max_scroll is strictly positive for every title, author and body, an
\* empty body included: the centre of the call to action lies more than
\* half a frame height below the top of the canvas, so the clamp at 0 of
\* line 588 never takes effect.
C30_MaxScrollPositive ==
  /\ Rendered =>
       /\ center_y > HEIGHT \div 2
       /\ max_scroll = center_y - (HEIGHT \div 2)
       /\ max_scroll > 0
  /\ \A w \in Layouts :
       /\ subscribe_center_y(w) > HEIGHT \div 2
       /\ MaxScroll(w) = subscribe_center_y(w) - (HEIGHT \div 2)

\* a rendered story with an empty body
C30_Witness ==
  /\ Rendered
  /\ SumLines(wrapped.para_lines_list, 1) = 0
  /\ max_scroll > 0

(***************************************************************************)
(* Properties of _wrap_markup (SpecWrap)                                   *)
(***************************************************************************)
Returned == wpc = "done"

RECURSIVE Flatten(_, _)
\* the words of lines i.. in order
Flatten(ls, i) == IF i > Len(ls) THEN <<>> ELSE ls[i] \o Flatten(ls, i + 1)

OverWide(word) == word_w(word, fonts) > max_width

\* C9: every returned line has mixed-style pixel width (_line_pixel_width:
\* each word in its own font plus one regular space between neighbours) at
\* most max_width, except a line made of a single word wider than max_width.
C9_LinesFit ==
  Returned =>
    \A i \in 1..Len(lines) :
      \/ _line_pixel_width(lines[i], fonts) <= max_width
      \/ Len(lines[i]) = 1 /\ OverWide(lines[i][1])

\* a returned line of two words in different fonts that fills max_width
\* exactly, next to a line that had to be closed
C9_Witness ==
  /\ Returned
  /\ Len(lines) >= 2
  /\ \E i \in 1..Len(lines) :
       /\ Len(lines[i]) >= 2
       /\ _line_pixel_width(lines[i], fonts) = max_width
       /\ \E j, k \in 1..Len(lines[i]) :
            _pick_font(fonts, lines[i][j][2], lines[i][j][3])
              # _pick_font(fonts, lines[i][k][2], lines[i][k][3])

\* C10: _wrap_markup never fails and never splits a word: it always runs to
\* its return, the returned lines hold the input words whole and in order, a
\* word wider than max_width is the only word of its line, no returned line
\* is empty, and input without words yields zero lines.
C10_NeverSplits ==
  /\ Returned \/ ENABLED WrapNext
  /\ Returned =>
       /\ Flatten(lines, 1) = tagged_words
       /\ \A i \in 1..Len(lines) :
            /\ lines[i] # <<>>
            /\ (\E j \in 1..Len(lines[i]) : OverWide(lines[i][j]))
                 => Len(lines[i]) = 1
       /\ tagged_words = <<>> => lines = <<>>

\* an over-wide word returned alone between two other lines
C10_Witness ==
  /\ Returned
  /\ Len(lines) = 3
  /\ OverWide(lines[2][1])
  /\ ~OverWide(lines[1][1])

\* how often the tuple x occurs in the sequence ws
Occurrences(ws, x) == Cardinality({k \in DOMAIN ws : ws[k] = x})

\* C29: _wrap_markup loses and reorders nothing and packs greedily: the
\* returned lines, concatenated in order, are the tagged words (every tuple
\* as often as in the input), no line is empty, and the first word of
\* every line but the first would not have fitted at the end of the line
\* before it.
C29_GreedyLossless ==
  Returned =>
    LET out == Flatten(lines, 1)
    IN  /\ out = tagged_words
        /\ \A k \in DOMAIN tagged_words :
             Occurrences(out, tagged_words[k])
               = Occurrences(tagged_words, tagged_words[k])
        /\ \A i \in 1..Len(lines) : Len(lines[i]) >= 1
        /\ \A i \in 2..Len(lines) :
             _line_pixel_width(lines[i - 1], fonts) + space_w(fonts)
               + word_w(lines[i][1], fonts) > max_width

\* the same tuple twice in the input, wrapped to several lines, one of
\* which holds two words and is filled to the last pixel
C29_Witness ==
  /\ Returned
  /\ Len(lines) >= 2
  /\ \E j, k \in DOMAIN tagged_words : j # k /\ tagged_words[j] = tagged_words[k]
  /\ \E i \in 1..Len(lines) :
       Len(lines[i]) = 2 /\ _line_pixel_width(lines[i], fonts) = max_width

(***************************************************************************)
(* Properties of _parse_inline (SpecParse)                                 *)
(***************************************************************************)
Parsed == ppc = "done"

\* the characters of the emphasis delimiters
IsMarker(c) == c \in {"*", "_", "~"}

\* the emphasis delimiters of the grammar
Delimiters ==
  { <<"*">>, <<"*", "*">>, <<"*", "*", "*">>, <<"_">>, <<"~", "~">> }

RECURSIVE SameRunEnd(_, _)
\* last index of the run of the character s[i] that starts at i
SameRunEnd(s, i) ==
  IF i < Len(s) /\ s[i + 1] = s[i] THEN SameRunEnd(s, i + 1) ELSE i

RECURSIVE MarkerRuns(_, _)
\* the maximal runs of one marker character in s, in order, from index i on
MarkerRuns(s, i) ==
  IF i > Len(s) THEN <<>>
  ELSE IF IsMarker(s[i])
  THEN <<SubSeq(s, i, SameRunEnd(s, i))>> \o MarkerRuns(s, SameRunEnd(s, i) + 1)
  ELSE MarkerRuns(s, i + 1)

\* no superscript and no code marker in s
NoAnnotations(s) == \A i \in 1..Len(s) : s[i] \notin {"^", Backtick}

\* s holds emphasis spans one after the other and nothing else of markup:
\* its marker runs are delimiters and pair up, opener with equal closer
PairedSpans(s) ==
  LET r == MarkerRuns(s, 1)
  IN  /\ NoAnnotations(s)
      /\ Len(r) % 2 = 0
      /\ \A k \in 1..Len(r) :
           r[k] \in Delimiters /\ (k % 2 = 1 => r[k + 1] = r[k])

\* s holds one delimiter and no other markup: the delimiter has no closer
LoneDelimiter(s) ==
  LET r == MarkerRuns(s, 1)
  IN  NoAnnotations(s) /\ Len(r) = 1 /\ r[1] \in Delimiters

WithoutMarkers(s) == SelectSeq(s, LAMBDA c : ~IsMarker(c))
TextsOf(res) == [k \in 1..Len(res) |-> res[k][1]]
PlainWords(ws) == [k \in 1..Len(ws) |-> <<ws[k], FALSE, FALSE, FALSE>>]

\* C11: for a paragraph whose emphasis markers are validly paired, the texts
\* of the words _parse_inline returns, in order and without their style
\* flags, are the whitespace-separated words of the paragraph with the marker
\* characters removed.
C11_WordsPreserved ==
  (Parsed /\ PairedSpans(paragraph))
    => TextsOf(result) = PySplit(WithoutMarkers(paragraph), 1, <<>>)

\* C12: a delimiter without a closer in the paragraph is kept as literal
\* text: the words returned are the whitespace-separated words of the
\* paragraph, delimiter included, all with every style flag false.
C12_UnpairedLiteral ==
  (Parsed /\ LoneDelimiter(paragraph))
    => result = PlainWords(PySplit(paragraph, 1, <<>>))

\* the marker characters of the annotations
IsAnnotationMark(c) == c \in {"^", Backtick}
WithoutAnnotationMarks(s) == SelectSeq(s, LAMBDA c : ~IsAnnotationMark(c))

\* s holds superscript annotations (a caret before a letter) or code spans
\* (backticks in pairs) and no emphasis marker
Annotated(s) ==
  /\ \A i \in 1..Len(s) : ~IsMarker(s[i])
  /\ \E i \in 1..Len(s) : IsAnnotationMark(s[i])
  /\ \A i \in 1..Len(s) : s[i] = "^" => (i < Len(s) /\ s[i + 1] = "a")
  /\ Len(SelectSeq(s, LAMBDA c : c = Backtick)) % 2 = 0

C19_RequestGap == requests >= 2 => last_gap >= MIN_REQUEST_GAP

\* the wait the claim gives for the 429 answered to the n-th attempt
ClaimedWait(ra, n) ==
  IF ra.kind = "absent" THEN 60 * Pow2(n - 1) ELSE ra.secs

\* C26: fetch_json sends at most `retries` requests per call and ends in one
\* of three ways only: it returns the JSON of the first successful attempt,
\* it lets a non-429 HTTP error through at once, or it raises RuntimeError
\* after `retries` answers of 429; after every 429 it waits the Retry-After
\* seconds when the header is given, else 60 * 2^(attempt-1), and tries again.
C26_RetryPolicy ==
  /\ fpc = "sent" => attempt \in 1..RETRIES
  /\ outcome \in {"none", "json", "HTTPError", "RuntimeError"}
  /\ outcome \in {"json", "HTTPError"} => attempt \in 1..RETRIES
  /\ outcome = "RuntimeError" => attempt = RETRIES + 1
  /\ (fpc = "sent" /\ attempt > 1) => wait = ClaimedWait(retry_after, attempt - 1)
  /\ (fpc = "loop" /\ attempt > 1) => wait = ClaimedWait(retry_after, attempt - 1)

(***************************************************************************)
(* Properties of the scraper's merge (SpecScrape)                          *)
(***************************************************************************)
Saved == spc = "saved"
RangeOf(seq) == {seq[i] : i \in DOMAIN seq}

\* C20: the merge loses and overwrites nothing: the file is untouched until
\* the run saves; after the save every story that was in the file is still
\* in it with the same fields, a story was added only if its id was not in
\* the file, and no id is in the file twice.
C20_MergeKeepsExisting ==
  /\ ~Saved => out_file = file_before
  /\ Saved =>
       /\ RangeOf(file_before) \subseteq RangeOf(out_file)
       /\ \A j \in DOMAIN out_file :
            out_file[j].id \in IdsOf(file_before)
              => out_file[j] \in RangeOf(file_before)
       /\ \A j, k \in DOMAIN out_file :
            out_file[j].id = out_file[k].id => j = k

\* a saved run whose last pass scraped a story already in the file, with
\* other fields, and that added a story
C20_Witness ==
  /\ Saved
  /\ Len(out_file) > Len(file_before)
  /\ \E i \in DOMAIN fresh :
       fresh[i].id \in IdsOf(file_before) /\ fresh[i] \notin RangeOf(file_before)

(***************************************************************************)
(* Properties of scrape_subreddit (SpecSubreddit)                          *)
(***************************************************************************)
Finished == qpc \in {"returned", "raised"}

\* what holds at every point of a call
SubredditBounds ==
  /\ listing_fetches <= MAX_PAGES
  /\ listing_fetches = page
  /\ Len(stories) <= target
  /\ \A i \in DOMAIN stories :
       /\ stories[i].is_self
       /\ MIN_WORDS <= stories[i].words /\ stories[i].words <= MAX_WORDS
  /\ qpc = "returned" =>
       \/ stop = "target" /\ Len(stories) = target
       \/ stop = "pages" /\ page = MAX_PAGES
       \/ stop \in {"empty", "cursor", "error"}
  /\ (stop = "cursor" /\ qpc = "returned") => after = ""

\* C27: scrape_subreddit always terminates, after at most MAX_PAGES listing
\* fetches; it returns at most `target` stories, each a self-post of
\* MIN_WORDS to 1000 words; it stops when the target is reached, a page is
\* empty, the cursor is empty or a page fetch fails, and fetches no page
\* after that.
C27_BoundedScrape ==
  /\ []SubredditBounds
  /\ <>Finished
  /\ [][(Len(stories) >= target \/ Finished) => listing_fetches' = listing_fetches]_vars

\* a call that returned a full target of stories of 50 and of 1000 words
\* after more than one page, having passed over a post of 1001 words
C27_Witness ==
  /\ qpc = "returned"
  /\ stop = "target"
  /\ page >= 2
  /\ \E i, j \in DOMAIN stories :
       stories[i].words = MIN_WORDS /\ stories[j].words = MAX_WORDS

(***************************************************************************)
(* Properties of the uploaders (SpecUploader)                              *)
(***************************************************************************)
\* the calls of upload_video of run r, in order
CallsOfRun(r) == SelectSeq(upload_calls, LAMBDA c : c.run = r)
\* position of the id in the story file
FilePos(id) == CHOOSE k \in DOMAIN StoriesFile : StoriesFile[k] = id

C22_TokenKeepsIgUser ==
  /\ token_exists =>
       /\ "ig_user_id" \in DOMAIN token_file
       /\ token_file.ig_user_id = first_ig
  /\ (had_token /\ auth_result.kind # "HTTPError") =>
       /\ auth_result.kind = "pair"
       /\ auth_result.ig_user_id = first_ig
       /\ auth_result.access_token = token_file.access_token

(***************************************************************************)
(* Properties of TikTok's upload_video (SpecTikTok)                        *)
(***************************************************************************)
\* C28: upload_video returns a publish_id, and main logs the story, only if
\* a status poll returned PUBLISH_COMPLETE; with PUBLISH_FAILED, or with a
\* status still not terminal after the 30 polls, it raises.
C28_ReturnOnlyWhenComplete ==
  /\ tpc = "returned" => status = "PUBLISH_COMPLETE"
  /\ entry_logged => status = "PUBLISH_COMPLETE"
  /\ (tpc \in {"returned", "raised"} /\ polls >= 1 /\ status # "PUBLISH_COMPLETE")
       => tpc = "raised"

====
